---- MODULE Spec2Model ----
(***************************************************************************)
(* Model of the contextkeeper item store (internal/storage): a slice of    *)
(* ContextItem guarded by a sync.RWMutex and written through to a JSON     *)
(* file.  Strings are sequences of small numbers (bytes), a slice is its   *)
(* backing array plus a length, and the file is the JSON document it       *)
(* holds.                                                                  *)
(***************************************************************************)
EXTENDS Integers, Sequences, FiniteSets, TLC

\* ------------------------------------------------------------------ bounds
MaxItems == 2
MaxFaults == 1
MaxSetLen == 1
NumThreads == 2
CallsPerThread == 1
MaxDepth == 11

\* ------------------------------------------------------------ byte strings
\* A byte that is not valid UTF-8 and the replacement rune json.Marshal
\* writes in its place.
BadByte == 9
ReplRune == 8

\* encoding/json coerces every string it writes or reads to valid UTF-8.
CoerceUTF8(s) == [i \in 1..Len(s) |-> IF s[i] = BadByte THEN ReplRune ELSE s[i]]

\* strings.HasPrefix
HasPrefix(s, prefix) ==
    /\ Len(prefix) <= Len(s)
    /\ \A i \in 1..Len(prefix) : s[i] = prefix[i]

\* ------------------------------------------------------------------- items
\* models.ContextItem.  CompletedAt is a *time.Time: <<>> is nil and <<t>>
\* points to t.  Times are instants (what time.Time.Equal compares).
ContextItem(id, content, project, tags, created, completed, archived) ==
    [ID |-> id, Content |-> content, Project |-> project, Tags |-> tags,
     CreatedAt |-> created, CompletedAt |-> completed, Archived |-> archived]

\* The zero value models.ContextItem{}.
ZeroItem == ContextItem(<<>>, <<>>, <<>>, <<>>, 0, <<>>, FALSE)

\* Items the callers hand to Add, Update and SetItems.
ItemA == ContextItem(<<1, 2>>, <<1>>, <<>>, <<>>, 1, <<>>, FALSE)
ItemB == ContextItem(<<1, 3>>, <<2>>, <<5>>, << <<6>> >>, 2, <<3>>, TRUE)
ItemC == ContextItem(<<1, 2>>, <<BadByte>>, <<7>>, <<>>, 1, <<>>, FALSE)
InputItems == {ItemA, ItemB, ItemC}

\* Identifiers and prefixes the callers ask for.
InputIDs == {<<1, 2>>, <<1, 3>>, <<1>>, <<4>>}
InputPrefixes == {<<>>, <<1>>, <<1, 2>>, <<1, 3>>, <<4>>}

\* Slices handed to SetItems.
InputSlices == {<<>>} \cup {<<x>> : x \in InputItems}
    \cup (IF MaxSetLen >= 2 THEN {<<x, y>> : x \in InputItems, y \in InputItems} ELSE {})

\* ------------------------------------------------------------ JSON objects
EmptyObj == [k \in {} |-> 0]

\* json.Marshal with the project field left out of the document.
MarshalItemNoProject(item) ==
    [id |-> CoerceUTF8(item.ID), content |-> CoerceUTF8(item.Content),
     created_at |-> item.CreatedAt, archived |-> item.Archived]
    @@ (IF item.Tags # <<>>
        THEN [tags |-> [i \in 1..Len(item.Tags) |-> CoerceUTF8(item.Tags[i])]]
        ELSE EmptyObj)
    @@ (IF item.CompletedAt # <<>> THEN [completed_at |-> item.CompletedAt[1]] ELSE EmptyObj)

\* json.Marshal of one ContextItem under its struct tags: project, tags and
\* completed_at carry omitempty.
MarshalItem(item) ==
    [id |-> CoerceUTF8(item.ID), content |-> CoerceUTF8(item.Content),
     created_at |-> item.CreatedAt, archived |-> item.Archived]
    @@ (IF item.Project # <<>> THEN [project |-> CoerceUTF8(item.Project)] ELSE EmptyObj)
    @@ (IF item.Tags # <<>>
        THEN [tags |-> [i \in 1..Len(item.Tags) |-> CoerceUTF8(item.Tags[i])]]
        ELSE EmptyObj)
    @@ (IF item.CompletedAt # <<>> THEN [completed_at |-> item.CompletedAt[1]] ELSE EmptyObj)

\* json.MarshalIndent(s.items, "", "  "): the array of the items' objects.
MarshalIndent(items) == [i \in 1..Len(items) |-> MarshalItem(items[i])]

\* The decoder's object(): a key of the document sets its field, a field
\* whose key is absent keeps the value the destination already has.
UnmarshalItem(dst, obj) ==
    [ID |-> IF "id" \in DOMAIN obj THEN CoerceUTF8(obj.id) ELSE dst.ID,
     Content |-> IF "content" \in DOMAIN obj THEN CoerceUTF8(obj.content) ELSE dst.Content,
     Project |-> IF "project" \in DOMAIN obj THEN CoerceUTF8(obj.project) ELSE dst.Project,
     Tags |-> IF "tags" \in DOMAIN obj
              THEN [i \in 1..Len(obj.tags) |-> CoerceUTF8(obj.tags[i])]
              ELSE dst.Tags,
     CreatedAt |-> IF "created_at" \in DOMAIN obj THEN obj.created_at ELSE dst.CreatedAt,
     CompletedAt |-> IF "completed_at" \in DOMAIN obj THEN <<obj.completed_at>>
                     ELSE dst.CompletedAt,
     Archived |-> IF "archived" \in DOMAIN obj THEN obj.archived ELSE dst.Archived]

\* ------------------------------------------------------------------ slices
\* A slice is [backing, len]: the backing array (its length is the
\* capacity) and the slice length.
Slice(b, n) == [backing |-> b, len |-> n]

\* make([]models.ContextItem, 0)
EmptySlice == Slice(<<>>, 0)

\* The elements a range over the slice sees.
Elems(s) == SubSeq(s.backing, 1, s.len)

\* Capacity the runtime gives a full slice that grows by one element.
GrowCap(cap) == IF cap = 0 THEN 1 ELSE 2 * cap

\* The backing array after growing: old elements copied, the rest zero.
Grown(s) ==
    [i \in 1..GrowCap(Len(s.backing)) |-> IF i <= s.len THEN s.backing[i] ELSE ZeroItem]

\* append(s, item)
Append1(s, item) ==
    IF s.len < Len(s.backing)
    THEN Slice([s.backing EXCEPT ![s.len + 1] = item], s.len + 1)
    ELSE Slice([Grown(s) EXCEPT ![s.len + 1] = item], s.len + 1)

\* append(s[:i], s[i+1:]...) with i the 1-based position: the tail moves
\* left inside the same array and the old last slot keeps its value.
RemoveAt(s, i) ==
    Slice([j \in 1..Len(s.backing) |->
              IF j >= i /\ j < s.len THEN s.backing[j + 1] ELSE s.backing[j]],
          s.len - 1)

\* Position of the first element whose ID is id, 0 when there is none.
FirstIndex(s, id) ==
    IF \E i \in 1..s.len : s.backing[i].ID = id
    THEN CHOOSE i \in 1..s.len :
            /\ s.backing[i].ID = id
            /\ \A j \in 1..(i - 1) : s.backing[j].ID # id
    ELSE 0

\* The decoder's array() on a destination slice: element i is decoded into
\* the slot the array already has at i (inside the old capacity), or into a
\* zero slot of the grown array; the slice is then cut to the document's
\* length, and an empty document yields a fresh empty slice.
RECURSIVE DecodeFrom(_, _, _)
DecodeFrom(s, objs, i) ==
    IF i > Len(objs) THEN s
    ELSE LET room == IF i > Len(s.backing) THEN Slice(Grown(Slice(s.backing, i - 1)), i - 1)
                     ELSE s
             slot == room.backing[i]
         IN  DecodeFrom(Slice([room.backing EXCEPT ![i] = UnmarshalItem(slot, objs[i])],
                              room.len),
                        objs, i + 1)

UnmarshalArray(s, objs) ==
    IF Len(objs) = 0 THEN EmptySlice
    ELSE Slice(DecodeFrom(s, objs, 1).backing, Len(objs))

\* -------------------------------------------------------------- file system
\* What the storage path holds: no file, a JSON array of objects, or a
\* document cut short by a write that failed after the file was truncated.
AbsentFile == [kind |-> "absent"]
TruncatedFile == [kind |-> "truncated"]
ArrayFile(objs) == [kind |-> "array", objs |-> objs]

\* Documents only another program leaves at the path: the literal null and
\* a JSON object (valid JSON, not an array); and what two overlapping writes
\* leave: a document followed by the tail of a longer one.
NullFile == [kind |-> "null"]
GarbledFile == [kind |-> "garbled"]
ObjectFile == [kind |-> "object"]

\* Outcomes the file system can give one persistLocked or one Load.
WriteOutcomes == {"ok", "mkdir_fail", "open_fail", "write_fail", "close_fail"}
ReadOutcomes == {"ok", "read_fail"}

\* ensureDir: os.MkdirAll fails or leaves the directory in place.
EnsureDir(dir, fs) ==
    IF fs = "mkdir_fail" THEN [err |-> "io", dir |-> dir] ELSE [err |-> "nil", dir |-> TRUE]

\* os.WriteFile opens with O_CREATE|O_TRUNC, writes and closes: a failed open
\* leaves the path as it was, a failed write leaves a cut document, a failed
\* close leaves the written document and still reports the error.
WriteFile(f, data, fs) ==
    CASE fs = "open_fail" -> [err |-> "io", file |-> f]
      [] fs = "write_fail" -> [err |-> "io", file |-> TruncatedFile]
      [] fs = "close_fail" -> [err |-> "io", file |-> ArrayFile(data)]
      [] OTHER -> [err |-> "nil", file |-> ArrayFile(data)]

\* persistLocked that reports success whatever the file system did.
PersistLockedSwallow(elems, f, dir, fs) ==
    LET d == EnsureDir(dir, fs)
        w == WriteFile(f, MarshalIndent(elems), fs)
    IN  IF d.err # "nil" THEN [err |-> "nil", file |-> f, dir |-> d.dir]
        ELSE [err |-> "nil", file |-> w.file, dir |-> d.dir]

\* persistLocked on the elements elems.
PersistLocked(elems, f, dir, fs) ==
    LET d == EnsureDir(dir, fs)
        w == WriteFile(f, MarshalIndent(elems), fs)
    IN  IF d.err # "nil" THEN [err |-> d.err, file |-> f, dir |-> d.dir]
        ELSE [err |-> w.err, file |-> w.file, dir |-> d.dir]

\* ------------------------------------------------------------------- state
VARIABLES
    items,      \* storageImpl.items
    file,       \* content of storageImpl.path
    dirExists,  \* whether filepath.Dir(path) exists
    faults,     \* file-system failures so far
    last,       \* the last call: operation, arguments, result, state before
    fresh,      \* items of a second store constructed on the same path
    held,       \* a slice GetAll returned that its caller still holds
    mu,         \* storageImpl.mu
    thr,        \* the goroutines calling the store: position, call, result
    ser         \* the calls so far run one at a time, in lock order

vars == <<items, file, dirExists, faults, last, fresh, held, mu, thr, ser>>

\* What only calls made from several goroutines touch.
concVars == <<mu, thr, ser>>

\* Outcomes still allowed: failures are counted against MaxFaults, and
\* MkdirAll can only fail when the directory is missing.
AllowedWrites ==
    {fs \in WriteOutcomes :
        /\ fs # "ok" => faults < MaxFaults
        /\ fs = "mkdir_fail" => ~dirExists}

AllowedReads == {fs \in ReadOutcomes : fs # "ok" => faults < MaxFaults}

Charge(fs) == IF fs = "ok" THEN faults ELSE faults + 1

Call(op, id, item, slice, fs, err, out) ==
    [op |-> op, id |-> id, item |-> item, slice |-> slice, fs |-> fs, err |-> err,
     out |-> out, pre |-> Elems(items), preSlice |-> items, preFile |-> file,
     preDir |-> dirExists]

\* ---------------------------------------------------------------- goroutines
\* No slice returned by GetAll is held.  elems is the caller's slice; shared
\* holds the positions whose Tags still have the backing array of the
\* store's item at the same position.
NoCopy == [elems |-> <<>>, shared |-> {}]

Threads == 1..NumThreads

\* sync.RWMutex: w is the writer that has taken the writers' mutex (0 for
\* none), held tells whether it got past the readers, readers are the
\* goroutines inside RLock..RUnlock.
FreeMutex == [w |-> 0, held |-> FALSE, readers |-> {}]

\* A goroutine that is not inside a call.
IdleThread ==
    [pc |-> "idle", op |-> "none", id |-> <<>>, item |-> ZeroItem, slice |-> <<>>,
     fs |-> "ok", err |-> "nil", serErr |-> "nil", data |-> <<>>, out |-> <<>>,
     seen |-> <<>>, calls |-> 0]

\* The store as one sequential caller would have left it.
Committed(s, f, dir) == [items |-> s, file |-> f, dir |-> dir, clean |-> TRUE, adds |-> {}]

\* NewStorage: an empty slice, nothing touched on disk.
Init ==
    /\ items = EmptySlice
    /\ file = AbsentFile
    /\ dirExists = FALSE
    /\ faults = 0
    /\ last = [op |-> "NewStorage", id |-> <<>>, item |-> ZeroItem, slice |-> <<>>,
               fs |-> "ok", err |-> "nil", out |-> <<>>, pre |-> <<>>,
               preSlice |-> EmptySlice, preFile |-> AbsentFile, preDir |-> FALSE]
    /\ fresh = EmptySlice
    /\ held = NoCopy
    /\ mu = FreeMutex
    /\ thr = [t \in Threads |-> IdleThread]
    /\ ser = Committed(EmptySlice, AbsentFile, FALSE)

\* ---------------------------------------------------------------- mutations
\* Whether some element of the document has a value of the wrong JSON type
\* for its field (the decoder skips the field and reports the first such).
HasTypeError(objs) == \E i \in 1..Len(objs) : "mistyped" \in DOMAIN objs[i]

\* Load that returns early on a missing file without resetting the slice.
LoadResultKeep(s, f, fs) ==
    CASE f.kind = "absent" -> [err |-> "nil", items |-> s]
      [] fs = "read_fail" -> [err |-> "io", items |-> s]
      [] f.kind \in {"truncated", "garbled"} -> [err |-> "decode", items |-> s]
      [] f.kind = "null" -> [err |-> "nil", items |-> EmptySlice]
      [] f.kind = "object" -> [err |-> "decode", items |-> s]
      [] OTHER -> [err |-> IF HasTypeError(f.objs) THEN "decode" ELSE "nil",
                   items |-> UnmarshalArray(s, f.objs)]

\* Load that drops the decoder's type errors.
LoadResultLenient(s, f, fs) ==
    CASE f.kind = "absent" -> [err |-> "nil", items |-> EmptySlice]
      [] fs = "read_fail" -> [err |-> "io", items |-> s]
      [] f.kind \in {"truncated", "garbled"} -> [err |-> "decode", items |-> s]
      [] f.kind = "null" -> [err |-> "nil", items |-> EmptySlice]
      [] f.kind = "object" -> [err |-> "nil", items |-> s]
      [] OTHER -> [err |-> "nil", items |-> UnmarshalArray(s, f.objs)]

\* What Load does to the slice and what it returns.  A missing file gives an
\* empty slice; a read error and a document that is not valid JSON leave the
\* slice alone; null sets the slice to nil; a value that is not an array is a
\* type error with the slice untouched; an array is decoded into the slice,
\* and a type error inside it is returned after the decoding went on.
LoadResult(s, f, fs) ==
    CASE f.kind = "absent" -> [err |-> "nil", items |-> EmptySlice]
      [] fs = "read_fail" -> [err |-> "io", items |-> s]
      [] f.kind \in {"truncated", "garbled"} -> [err |-> "decode", items |-> s]
      [] f.kind = "null" -> [err |-> "nil", items |-> EmptySlice]
      [] f.kind = "object" -> [err |-> "decode", items |-> s]
      [] OTHER -> [err |-> IF HasTypeError(f.objs) THEN "decode" ELSE "nil",
                   items |-> UnmarshalArray(s, f.objs)]

\* Load that makes the storage directory before it reads.
LoadEnsuringDir(fs) ==
    LET r == LoadResult(items, file, fs) IN
    /\ fs = "read_fail" => file.kind # "absent"
    /\ items' = r.items
    /\ dirExists' = TRUE
    /\ faults' = IF file.kind = "absent" THEN faults ELSE Charge(fs)
    /\ last' = Call("Load", <<>>, ZeroItem, <<>>, fs, r.err, <<>>)
    /\ UNCHANGED <<file, fresh, held, concVars>>

Load(fs) ==
    LET r == LoadResult(items, file, fs) IN
    /\ fs = "read_fail" => file.kind # "absent"
    /\ items' = r.items
    /\ faults' = IF file.kind = "absent" THEN faults ELSE Charge(fs)
    /\ last' = Call("Load", <<>>, ZeroItem, <<>>, fs, r.err, <<>>)
    /\ UNCHANGED <<file, dirExists, fresh, held, concVars>>

Save(fs) ==
    LET p == PersistLocked(Elems(items), file, dirExists, fs) IN
    /\ file' = p.file
    /\ dirExists' = p.dir
    /\ faults' = Charge(fs)
    /\ last' = Call("Save", <<>>, ZeroItem, <<>>, fs, p.err, <<>>)
    /\ UNCHANGED <<items, fresh, held, concVars>>

\* Add that rejects an ID the store already holds.
AddMemUnique(s, item) == IF FirstIndex(s, item.ID) # 0 THEN s ELSE Append1(s, item)

\* Add that puts the item in front.
AddMemPrepend(s, item) ==
    LET a == Append1(s, item) IN
    Slice([i \in 1..Len(a.backing) |->
              IF i = 1 THEN item ELSE IF i <= a.len THEN s.backing[i - 1] ELSE a.backing[i]],
          a.len)

\* The in-memory half of Add.
AddMem(s, item) == Append1(s, item)

Add(item, fs) ==
    LET s == AddMem(items, item)
        p == PersistLocked(Elems(s), file, dirExists, fs) IN
    /\ items.len < MaxItems
    /\ items' = s
    /\ file' = p.file
    /\ dirExists' = p.dir
    /\ faults' = Charge(fs)
    /\ last' = Call("Add", item.ID, item, <<>>, fs, p.err, <<>>)
    /\ UNCHANGED <<fresh, held, concVars>>

\* Update that only takes over the content of the item.
UpdateMemContentOnly(s, item) ==
    LET i == FirstIndex(s, item.ID) IN
    IF i = 0 THEN s ELSE Slice([s.backing EXCEPT ![i].Content = item.Content], s.len)

\* Update that overwrites the first element whatever its ID.
UpdateMemAtHead(s, item) ==
    IF s.len = 0 THEN s ELSE Slice([s.backing EXCEPT ![1] = item], s.len)

\* Update that inserts the item when no element has its ID.
UpdateMemUpsert(s, item) ==
    LET i == FirstIndex(s, item.ID) IN
    IF i = 0 THEN Append1(s, item) ELSE Slice([s.backing EXCEPT ![i] = item], s.len)

\* The in-memory half of Update: the first element with the ID is replaced.
UpdateMem(s, item) ==
    LET i == FirstIndex(s, item.ID) IN
    IF i = 0 THEN s ELSE Slice([s.backing EXCEPT ![i] = item], s.len)

Update(item, fs) ==
    LET found == FirstIndex(items, item.ID) # 0
        s == UpdateMem(items, item)
        p == PersistLocked(Elems(s), file, dirExists, fs) IN
    /\ ~found => fs = "ok"
    /\ items' = s
    /\ file' = IF found THEN p.file ELSE file
    /\ dirExists' = IF found THEN p.dir ELSE dirExists
    /\ faults' = Charge(fs)
    /\ last' = Call("Update", item.ID, item, <<>>, fs,
                    IF found THEN p.err ELSE "ErrItemNotFound", <<>>)
    /\ UNCHANGED <<fresh, held, concVars>>

\* Archive that flips the flag of the first element with the ID.
ArchiveMemToggle(s, id) ==
    LET i == FirstIndex(s, id) IN
    IF i = 0 THEN s
    ELSE Slice([s.backing EXCEPT ![i].Archived = ~s.backing[i].Archived], s.len)

\* Archive that flags every element with the ID.
ArchiveMemAll(s, id) ==
    Slice([j \in 1..Len(s.backing) |->
              IF j <= s.len /\ s.backing[j].ID = id
              THEN [s.backing[j] EXCEPT !.Archived = TRUE] ELSE s.backing[j]],
          s.len)

\* The in-memory half of Archive.
ArchiveMem(s, id) ==
    LET i == FirstIndex(s, id) IN
    IF i = 0 THEN s ELSE Slice([s.backing EXCEPT ![i].Archived = TRUE], s.len)

Archive(id, fs) ==
    LET found == FirstIndex(items, id) # 0
        s == ArchiveMem(items, id)
        p == PersistLocked(Elems(s), file, dirExists, fs) IN
    /\ ~found => fs = "ok"
    /\ items' = s
    /\ file' = IF found THEN p.file ELSE file
    /\ dirExists' = IF found THEN p.dir ELSE dirExists
    /\ faults' = Charge(fs)
    /\ last' = Call("Archive", id, ZeroItem, <<>>, fs,
                    IF found THEN p.err ELSE "ErrItemNotFound", <<>>)
    /\ UNCHANGED <<fresh, held, concVars>>

\* Delete that takes the first element whose ID starts with id.
DeleteMemPrefix(s, id) ==
    IF \E i \in 1..s.len : HasPrefix(s.backing[i].ID, id)
    THEN RemoveAt(s, CHOOSE i \in 1..s.len :
                        /\ HasPrefix(s.backing[i].ID, id)
                        /\ \A j \in 1..(i - 1) : ~HasPrefix(s.backing[j].ID, id))
    ELSE s

\* Delete that removes every element with the ID.
DeleteMemAll(s, id) ==
    LET kept == SelectSeq(Elems(s), LAMBDA it : it.ID # id) IN
    Slice([j \in 1..Len(s.backing) |-> IF j <= Len(kept) THEN kept[j] ELSE s.backing[j]],
          Len(kept))

\* The in-memory half of Delete.
DeleteMem(s, id) ==
    LET i == FirstIndex(s, id) IN
    IF i = 0 THEN s ELSE RemoveAt(s, i)

Delete(id, fs) ==
    LET found == FirstIndex(items, id) # 0
        s == DeleteMem(items, id)
        p == PersistLocked(Elems(s), file, dirExists, fs) IN
    /\ ~found => fs = "ok"
    /\ items' = s
    /\ file' = IF found THEN p.file ELSE file
    /\ dirExists' = IF found THEN p.dir ELSE dirExists
    /\ faults' = Charge(fs)
    /\ last' = Call("Delete", id, ZeroItem, <<>>, fs,
                    IF found THEN p.err ELSE "ErrItemNotFound", <<>>)
    /\ UNCHANGED <<fresh, held, concVars>>

\* SetItems has no result: the error of persistLocked is dropped and the
\* caller sees a plain return.
SetItemsErr(persistErr) == "nil"

SetItems(slice, fs) ==
    LET s == Slice(slice, Len(slice))
        p == PersistLocked(Elems(s), file, dirExists, fs) IN
    /\ items' = s
    /\ file' = p.file
    /\ dirExists' = p.dir
    /\ faults' = Charge(fs)
    /\ last' = Call("SetItems", <<>>, ZeroItem, slice, fs, SetItemsErr(p.err), <<>>)
    /\ UNCHANGED <<fresh, held, concVars>>

\* -------------------------------------------------------------------- reads
\* GetAll: make + copy.
GetAllResult(s) == [i \in 1..s.len |-> s.backing[i]]

GetAll ==
    /\ last' = Call("GetAll", <<>>, ZeroItem, <<>>, "ok", "nil", GetAllResult(items))
    /\ UNCHANGED <<items, file, dirExists, faults, fresh, held, concVars>>

\* GetByID that accepts a prefix of the ID.
GetByIDPrefix(s, id) ==
    LET matches == SelectSeq(Elems(s), LAMBDA it : HasPrefix(it.ID, id)) IN
    IF Len(matches) = 0 THEN [err |-> "ErrItemNotFound", item |-> ZeroItem]
    ELSE [err |-> "nil", item |-> matches[1]]

\* GetByID: the first element with the ID.
GetByIDResult(s, id) ==
    LET i == FirstIndex(s, id) IN
    IF i = 0 THEN [err |-> "ErrItemNotFound", item |-> ZeroItem]
    ELSE [err |-> "nil", item |-> s.backing[i]]

GetByID(id) ==
    LET r == GetByIDResult(items, id) IN
    /\ last' = Call("GetByID", id, ZeroItem, <<>>, "ok", r.err, <<r.item>>)
    /\ UNCHANGED <<items, file, dirExists, faults, fresh, held, concVars>>

\* The matches GetByPrefix collects, in slice order.
PrefixMatches(s, prefix) ==
    SelectSeq(Elems(s), LAMBDA it : HasPrefix(it.ID, prefix))

\* GetByPrefix that also counts the items sharing the first byte of the prefix.
GetByPrefixShared(s, prefix) ==
    LET matches == SelectSeq(Elems(s), LAMBDA it :
                       \/ HasPrefix(it.ID, prefix)
                       \/ Len(prefix) > 0 /\ Len(it.ID) > 0 /\ it.ID[1] = prefix[1]) IN
    CASE Len(matches) = 0 -> [err |-> "ErrItemNotFound", item |-> ZeroItem]
      [] Len(matches) = 1 -> [err |-> "nil", item |-> matches[1]]
      [] OTHER -> [err |-> "ErrAmbiguousID", item |-> ZeroItem]

\* GetByPrefix that settles an ambiguous prefix on its first match.
GetByPrefixFirstWins(s, prefix) ==
    LET matches == PrefixMatches(s, prefix) IN
    IF Len(matches) = 0 THEN [err |-> "ErrItemNotFound", item |-> ZeroItem]
    ELSE [err |-> "nil", item |-> matches[1]]

GetByPrefixResult(s, prefix) ==
    LET matches == PrefixMatches(s, prefix) IN
    CASE Len(matches) = 0 -> [err |-> "ErrItemNotFound", item |-> ZeroItem]
      [] Len(matches) = 1 -> [err |-> "nil", item |-> matches[1]]
      [] OTHER -> [err |-> "ErrAmbiguousID", item |-> ZeroItem]

GetByPrefix(prefix) ==
    LET r == GetByPrefixResult(items, prefix) IN
    /\ last' = Call("GetByPrefix", prefix, ZeroItem, <<>>, "ok", r.err, <<r.item>>)
    /\ UNCHANGED <<items, file, dirExists, faults, fresh, held, concVars>>

\* ------------------------------------------------------------ specification
Next ==
    \/ \E fs \in AllowedReads : Load(fs)
    \/ \E fs \in AllowedWrites : Save(fs)
    \/ \E item \in InputItems, fs \in AllowedWrites : Add(item, fs)
    \/ \E item \in InputItems, fs \in AllowedWrites : Update(item, fs)
    \/ \E id \in InputIDs, fs \in AllowedWrites : Archive(id, fs)
    \/ \E id \in InputIDs, fs \in AllowedWrites : Delete(id, fs)
    \/ \E slice \in InputSlices, fs \in AllowedWrites : SetItems(slice, fs)
    \/ GetAll
    \/ \E id \in InputIDs : GetByID(id)
    \/ \E prefix \in InputPrefixes : GetByPrefix(prefix)

Spec == Init /\ [][Next]_vars

\* ----------------------------------------------- round trip through the file
\* NewStorage(path) followed by Load on a second store, right after a Save
\* of the first one succeeded.
FreshLoad ==
    LET r == LoadResult(EmptySlice, file, "ok") IN
    /\ last.op = "Save" /\ last.err = "nil"
    /\ fresh' = r.items
    /\ last' = Call("FreshLoad", <<>>, ZeroItem, <<>>, "ok", r.err, <<>>)
    /\ UNCHANGED <<items, file, dirExists, faults, held, concVars>>

NextRoundTrip ==
    \/ \E item \in InputItems, fs \in AllowedWrites : Add(item, fs)
    \/ \E fs \in AllowedWrites : Save(fs)
    \/ FreshLoad

SpecRoundTrip == Init /\ [][NextRoundTrip]_vars

\* ------------------------------------------- a file written by someone else
\* An element whose id is a JSON number.
MistypedObj == [content |-> <<2>>, created_at |-> 2, archived |-> FALSE, mistyped |-> {"id"}]

\* Contents another program can leave at the storage path.
ForeignFiles ==
    {TruncatedFile, NullFile, ObjectFile,
     ArrayFile(<<MistypedObj>>),
     ArrayFile(<<MarshalItem(ItemA)>>),
     ArrayFile(<<MarshalItem(ItemB), MistypedObj>>)}

\* Another program rewrites the file the store reads with os.ReadFile.
ExternalWrite(f) ==
    /\ file' = f
    /\ dirExists' = TRUE
    /\ last' = Call("ExternalWrite", <<>>, ZeroItem, <<>>, "ok", "nil", <<>>)
    /\ UNCHANGED <<items, faults, fresh, held, concVars>>

NextForeign ==
    \/ \E f \in ForeignFiles : ExternalWrite(f)
    \/ \E fs \in AllowedReads : Load(fs)
    \/ \E item \in InputItems, fs \in AllowedWrites : Add(item, fs)
    \/ GetAll

SpecForeign == Init /\ [][NextForeign]_vars

\* ------------------------------------------- identifiers of several lengths
\* Add accepts any string as ID: items whose IDs share a prefix, extend one
\* another or have nothing in common.
PrefixIDs == {<<1, 2>>, <<1, 2, 3>>, <<1, 3>>, <<4>>}
PrefixItems == {ContextItem(id, <<Len(id)>>, <<>>, <<>>, 1, <<>>, FALSE) : id \in PrefixIDs}

NextPrefix ==
    \/ \E item \in PrefixItems, fs \in AllowedWrites : Add(item, fs)
    \/ \E id \in PrefixIDs, fs \in AllowedWrites : Delete(id, fs)
    \/ \E prefix \in PrefixIDs \cup {<<1>>} : GetByPrefix(prefix)

SpecPrefix == Init /\ [][NextPrefix]_vars

\* ------------------------------------------------------- the done command
\* markItemComplete prints item.ID[:8].
DisplayLen == 8

\* An item with an ID long enough to be displayed.
ItemL == ContextItem(<<1, 2, 3, 4, 5, 6, 7, 8>>, <<3>>, <<>>, <<>>, 3, <<>>, FALSE)
DoneItems == {ItemA, ItemL}
DoneIDs == {ItemA.ID, ItemL.ID}
DoneArgs == DoneIDs \cup {<<1>>, <<4>>}
DoneTimes == {4}

\* A command's record in last: the call, with the sequence the command's
\* own store loaded (slice) and cmd, the store methods it called in order,
\* what its Load returned and its flags.
CmdCall(op, id, item, loaded, fs, err, out, cmd) ==
    [op |-> op, id |-> id, item |-> item, slice |-> loaded, fs |-> fs, err |-> err,
     out |-> out, pre |-> Elems(items), preSlice |-> items, preFile |-> file,
     preDir |-> dirExists, cmd |-> cmd]

\* A command that goes on after Load returned an error.
ProceedsAlways(l) == TRUE

\* if err := stor.Load(); err != nil { return ... }
Proceeds(l) == l.err = "nil"

\* doneCommand that looks the argument up as a prefix only.
DoneResolvePrefixOnly(s, id) == GetByPrefixResult(s, id)

\* doneCommand: GetByID first, GetByPrefix when that finds nothing.
DoneResolve(s, id) ==
    IF GetByIDResult(s, id).err = "nil" THEN GetByIDResult(s, id)
    ELSE GetByPrefixResult(s, id)

\* markItemComplete that also clears the archived flag.
MarkItemCompleteUnarchive(item, now) ==
    [item EXCEPT !.CompletedAt = <<now>>, !.Archived = FALSE]

\* markItemComplete: item.CompletedAt = &now on the copy it was handed.
MarkItemComplete(item, now) == [item EXCEPT !.CompletedAt = <<now>>]

\* doneCommand in a process of its own: NewStorage and Load (outcome rfs),
\* GetByID and, when that finds nothing, GetByPrefix; then markItemComplete
\* with Update (outcome wfs) and the display of item.ID[:8], which panics
\* for a shorter ID.  fresh is the store of this process.
DoneCommand(id, now, rfs, wfs) ==
    LET l == LoadResult(EmptySlice, file, rfs)
        g == GetByIDResult(l.items, id)
        r == DoneResolve(l.items, id)
        marked == Proceeds(l) /\ r.err = "nil"
        calls == <<"NewStorage", "Load">>
                 \o (IF ~Proceeds(l) THEN <<>>
                     ELSE <<"GetByID">>
                          \o (IF g.err = "nil" THEN <<>> ELSE <<"GetByPrefix">>)
                          \o (CASE r.err = "nil" -> <<"Update">>
                                [] r.err = "ErrAmbiguousID" -> <<"GetAll">>
                                [] OTHER -> <<>>))
        item == MarkItemComplete(r.item, now)
        s == UpdateMem(l.items, item)
        p == PersistLocked(Elems(s), file, dirExists, wfs)
        err == CASE l.err # "nil" -> l.err
                 [] r.err # "nil" -> r.err
                 [] p.err # "nil" -> p.err
                 [] Len(item.ID) < DisplayLen -> "panic"
                 [] OTHER -> "nil"
    IN  /\ ~marked => wfs = "ok"
        /\ rfs # "ok" => wfs = "ok"
        /\ fresh' = IF marked THEN s ELSE l.items
        /\ file' = IF marked THEN p.file ELSE file
        /\ dirExists' = IF marked THEN p.dir ELSE dirExists
        /\ faults' = IF rfs # "ok" THEN faults + 1 ELSE Charge(wfs)
        /\ last' = CmdCall("DoneCommand", id, IF marked THEN item ELSE ZeroItem,
                           Elems(l.items), IF rfs # "ok" THEN rfs ELSE wfs, err,
                           IF marked THEN <<r.item>> ELSE <<>>,
                           [calls |-> calls, loadErr |-> l.err, force |-> FALSE,
                            answer |-> ""])
        /\ UNCHANGED <<items, held, concVars>>

NextDone ==
    \/ \E item \in DoneItems, fs \in AllowedWrites : Add(item, fs)
    \/ \E id \in DoneIDs, fs \in AllowedWrites : Archive(id, fs)
    \/ \E id \in DoneArgs, now \in DoneTimes, rfs \in AllowedReads, wfs \in AllowedWrites :
          DoneCommand(id, now, rfs, wfs)

SpecDone == Init /\ [][NextDone]_vars

\* -------------------------------------------------------------------- tags
\* Tag strings are sequences of ASCII codes.
Comma == 44
Space == 32
MaxTagLength == 50
\* tagRegex ^[a-zA-Z0-9_-]+$
TagChars == (48..57) \cup (65..90) \cup (97..122) \cup {95, 45}

\* strings.Fields after strings.ReplaceAll(tagStr, ",", " "): the runs of
\* characters between the separators; cur is the run being read.
RECURSIVE Fields(_, _)
Fields(s, cur) ==
    IF s = <<>> THEN (IF cur = <<>> THEN <<>> ELSE <<cur>>)
    ELSE IF Head(s) \in {Comma, Space}
         THEN (IF cur = <<>> THEN <<>> ELSE <<cur>>) \o Fields(Tail(s), <<>>)
    ELSE Fields(Tail(s), Append(cur, Head(s)))

\* The seen map of ParseTags: later occurrences of a tag are dropped.
RECURSIVE Dedup(_, _)
Dedup(tags, seen) ==
    IF tags = <<>> THEN <<>>
    ELSE IF Head(tags) \in seen THEN Dedup(Tail(tags), seen)
    ELSE <<Head(tags)>> \o Dedup(Tail(tags), seen \cup {Head(tags)})

\* utils.ParseTags
ParseTags(tagStr) == Dedup(Fields(tagStr, <<>>), {})

\* ValidateTags that accepts every tag.
ValidateTagsLenient(tags) == "nil"

\* utils.ValidateTags: the error of the first tag that is empty, too long
\* or holds a character outside the pattern.
ValidateTags(tags) ==
    IF \E i \in 1..Len(tags) :
          \/ Len(tags[i]) = 0
          \/ Len(tags[i]) > MaxTagLength
          \/ \E k \in 1..Len(tags[i]) : tags[i][k] \notin TagChars
    THEN "invalid_tag" ELSE "nil"

\* ------------------------------------------------ the commands as processes
\* Each command runs in a process of its own: NewStorage, Load, its store
\* calls, exit.  fresh is the store of the command that ran last.  The file
\* is first filled through the store, as the command tests do.
ItemM == ContextItem(<<1, 2, 3, 4, 5, 6, 7, 8, 9>>, <<4>>, <<>>, <<>>, 4, <<>>, FALSE)
SeedItems == {ItemL, ItemM}
CliArgs == {ItemL.ID, <<1>>, <<4>>}
NewIDs == {<<2, 2, 3, 4, 5, 6, 7, 8>>}
NewContents == {<<5>>}
AddContents == NewContents \cup {<<>>}
AddTagStrs == {<<>>, <<120, 44, 121>>, <<120, 33>>, [i \in 1..(MaxTagLength + 1) |-> 120]}
Answers == {"y", "n"}
EditorOutcomes == {"ok", "fail"}

\* The position of the first element whose ID starts with prefix, 0 when no
\* element does: for i, item := range allItems { if strings.HasPrefix(...) }.
FirstMatch(elems, prefix) ==
    LET S == {i \in 1..Len(elems) : HasPrefix(elems[i].ID, prefix)} IN
    IF S = {} THEN 0 ELSE CHOOSE i \in S : \A j \in S : i <= j

\* File-system failures among the outcomes of one command.
RECURSIVE Failures(_)
Failures(fss) ==
    IF fss = <<>> THEN 0
    ELSE (IF Head(fss) = "ok" THEN 0 ELSE 1) + Failures(Tail(fss))

\* No command has run yet.
Seeding == last.op \in {"NewStorage", "Add"}

\* stor.Add before the command runs.
Seed(item, fs) ==
    /\ Seeding
    /\ Add(item, fs)

\* addCommand: nothing for empty content, the error of ValidateTags for a
\* bad tag; else Load, Add of an item with a new UUID, Save.
AddCommand(id, content, tagStr, rfs, wfs1, wfs2) ==
    LET tags == ParseTags(tagStr)
        rejected == content = <<>> \/ ValidateTags(tags) # "nil"
        l == LoadResult(EmptySlice, file, rfs)
        item == ContextItem(id, content, <<>>, tags, 5, <<>>, FALSE)
        adds == ~rejected /\ Proceeds(l)
        s == AddMem(l.items, item)
        p1 == PersistLocked(Elems(s), file, dirExists, wfs1)
        p2 == PersistLocked(Elems(s), p1.file, p1.dir, wfs2)
        saves == adds /\ p1.err = "nil"
        err == CASE content = <<>> -> "nil"
                 [] rejected -> ValidateTags(tags)
                 [] l.err # "nil" -> l.err
                 [] p1.err # "nil" -> p1.err
                 [] p2.err # "nil" -> p2.err
                 [] OTHER -> "nil"
        calls == IF rejected THEN <<>>
                 ELSE <<"NewStorage", "Load">>
                      \o (IF adds THEN <<"Add">> ELSE <<>>)
                      \o (IF saves THEN <<"Save">> ELSE <<>>)
    IN  /\ faults + Failures(<<rfs, wfs1, wfs2>>) <= MaxFaults
        /\ rejected => rfs = "ok"
        /\ ~rejected => l.items.len < MaxItems /\ FirstIndex(l.items, id) = 0
        /\ rfs = "read_fail" => file.kind # "absent"
        /\ wfs1 = "mkdir_fail" => ~dirExists
        /\ wfs2 = "mkdir_fail" => ~p1.dir
        /\ ~adds => wfs1 = "ok"
        /\ ~saves => wfs2 = "ok"
        /\ fresh' = IF rejected THEN fresh ELSE IF adds THEN s ELSE l.items
        /\ file' = IF saves THEN p2.file ELSE IF adds THEN p1.file ELSE file
        /\ dirExists' = IF saves THEN p2.dir ELSE IF adds THEN p1.dir ELSE dirExists
        /\ faults' = faults + Failures(<<rfs, wfs1, wfs2>>)
        /\ last' = CmdCall("AddCommand", id, item,
                           IF rejected THEN <<>> ELSE Elems(l.items),
                           IF rfs # "ok" THEN rfs ELSE IF wfs1 # "ok" THEN wfs1 ELSE wfs2,
                           err, <<>>,
                           [calls |-> calls, loadErr |-> IF rejected THEN "nil" ELSE l.err,
                            force |-> FALSE, answer |-> "", content |-> content,
                            tagStr |-> tagStr])
        /\ UNCHANGED <<items, held, concVars>>

\* removeCommand: Load, GetAll, the first item whose ID starts with the
\* argument; without --force the display of itemID[:8] (a panic for a
\* shorter ID) and the question; then Delete.
RemoveCommand(id, force, answer, rfs, wfs) ==
    LET l == LoadResult(EmptySlice, file, rfs)
        all == GetAllResult(l.items)
        k == FirstMatch(all, id)
        itemID == IF k = 0 THEN <<>> ELSE all[k].ID
        found == itemID # <<>>
        panics == ~force /\ Len(itemID) < DisplayLen
        confirmed == force \/ answer = "y"
        deletes == Proceeds(l) /\ found /\ ~panics /\ confirmed
        s == DeleteMem(l.items, itemID)
        p == PersistLocked(Elems(s), file, dirExists, wfs)
        err == CASE l.err # "nil" -> l.err
                 [] ~found -> "ErrItemNotFound"
                 [] panics -> "panic"
                 [] ~confirmed -> "nil"
                 [] OTHER -> p.err
        calls == <<"NewStorage", "Load">>
                 \o (IF Proceeds(l) THEN <<"GetAll">> ELSE <<>>)
                 \o (IF deletes THEN <<"Delete">> ELSE <<>>)
    IN  /\ force <=> answer = ""
        /\ faults + Failures(<<rfs, wfs>>) <= MaxFaults
        /\ rfs = "read_fail" => file.kind # "absent"
        /\ wfs = "mkdir_fail" => ~dirExists
        /\ ~deletes => wfs = "ok"
        /\ fresh' = IF deletes THEN s ELSE l.items
        /\ file' = IF deletes THEN p.file ELSE file
        /\ dirExists' = IF deletes THEN p.dir ELSE dirExists
        /\ faults' = faults + Failures(<<rfs, wfs>>)
        /\ last' = CmdCall("RemoveCommand", id, ZeroItem, Elems(l.items),
                           IF rfs # "ok" THEN rfs ELSE wfs, err,
                           IF found THEN <<all[k]>> ELSE <<>>,
                           [calls |-> calls, loadErr |-> l.err, force |-> force,
                            answer |-> answer])
        /\ UNCHANGED <<items, held, concVars>>

\* editCommand: Load, GetAll, the first item whose ID starts with the
\* argument, the editor, SetItems of the changed copy (its error dropped),
\* Save, and the display of id[:8] (a panic for a shorter argument).
EditCommand(id, content, editor, rfs, wfs1, wfs2) ==
    LET l == LoadResult(EmptySlice, file, rfs)
        all == GetAllResult(l.items)
        k == FirstMatch(all, id)
        found == k # 0
        edits == Proceeds(l) /\ found /\ editor = "ok"
        new == IF found THEN [all EXCEPT ![k].Content = content] ELSE all
        p1 == PersistLocked(new, file, dirExists, wfs1)
        p2 == PersistLocked(new, p1.file, p1.dir, wfs2)
        err == CASE l.err # "nil" -> l.err
                 [] ~found -> "ErrItemNotFound"
                 [] editor # "ok" -> "editor"
                 [] p2.err # "nil" -> p2.err
                 [] Len(id) < DisplayLen -> "panic"
                 [] OTHER -> "nil"
        calls == <<"NewStorage", "Load">>
                 \o (IF Proceeds(l) THEN <<"GetAll">> ELSE <<>>)
                 \o (IF edits THEN <<"SetItems", "Save">> ELSE <<>>)
    IN  /\ faults + Failures(<<rfs, wfs1, wfs2>>) <= MaxFaults
        /\ rfs = "read_fail" => file.kind # "absent"
        /\ wfs1 = "mkdir_fail" => ~dirExists
        /\ wfs2 = "mkdir_fail" => ~p1.dir
        /\ ~edits => wfs1 = "ok" /\ wfs2 = "ok"
        /\ ~(Proceeds(l) /\ found) => editor = "ok"
        /\ fresh' = IF edits THEN Slice(new, Len(new)) ELSE l.items
        /\ file' = IF edits THEN p2.file ELSE file
        /\ dirExists' = IF edits THEN p2.dir ELSE dirExists
        /\ faults' = faults + Failures(<<rfs, wfs1, wfs2>>)
        /\ last' = CmdCall("EditCommand", id, ZeroItem, Elems(l.items),
                           IF rfs # "ok" THEN rfs ELSE IF wfs1 # "ok" THEN wfs1 ELSE wfs2,
                           err, IF found THEN <<all[k]>> ELSE <<>>,
                           [calls |-> calls, loadErr |-> l.err, force |-> FALSE,
                            answer |-> ""])
        /\ UNCHANGED <<items, held, concVars>>

NextCli ==
    \/ \E item \in SeedItems, fs \in AllowedWrites : Seed(item, fs)
    \/ \E id \in NewIDs, content \in AddContents, tagStr \in AddTagStrs,
          rfs \in ReadOutcomes, wfs1 \in WriteOutcomes, wfs2 \in WriteOutcomes :
          Seeding /\ AddCommand(id, content, tagStr, rfs, wfs1, wfs2)
    \/ \E id \in CliArgs, now \in DoneTimes, rfs \in AllowedReads, wfs \in AllowedWrites :
          Seeding /\ DoneCommand(id, now, rfs, wfs)
    \/ \E id \in CliArgs, force \in BOOLEAN, answer \in Answers \cup {""},
          rfs \in ReadOutcomes, wfs \in WriteOutcomes :
          Seeding /\ RemoveCommand(id, force, answer, rfs, wfs)
    \/ \E id \in CliArgs, content \in NewContents, editor \in EditorOutcomes,
          rfs \in ReadOutcomes, wfs1 \in WriteOutcomes, wfs2 \in WriteOutcomes :
          Seeding /\ EditCommand(id, content, editor, rfs, wfs1, wfs2)

SpecCli == Init /\ [][NextCli]_vars

\* ------------------------------------------- a caller keeping GetAll's slice
\* copy(result, s.items) copies the structs: the Tags header of each copy
\* points to the backing array of the stored item's Tags.
AliasItems == {ItemA, ItemB}
AliasIDs == {ItemA.ID, ItemB.ID}
CallerTags == {7}
CallerContents == {<<4>>}

\* GetAll whose caller keeps the slice.
GetAllKept ==
    /\ held' = [elems |-> GetAllResult(items),
                shared |-> {j \in 1..items.len : Len(items.backing[j].Tags) > 0}]
    /\ last' = Call("GetAll", <<>>, ZeroItem, <<>>, "ok", "nil", GetAllResult(items))
    /\ UNCHANGED <<items, file, dirExists, faults, fresh, concVars>>

\* The caller assigns result[j].Tags[0] = v.
CallerSetTag(j, v) ==
    /\ j \in 1..Len(held.elems)
    /\ Len(held.elems[j].Tags) > 0
    /\ held' = [held EXCEPT !.elems[j].Tags[1] = <<v>>]
    /\ items' = IF j \in held.shared /\ j <= items.len
                THEN [items EXCEPT !.backing[j].Tags[1] = <<v>>]
                ELSE items
    /\ last' = Call("CallerSetTag", <<>>, ZeroItem, <<>>, "ok", "nil", <<>>)
    /\ UNCHANGED <<file, dirExists, faults, fresh, concVars>>

\* The caller assigns result[j].Content = v.
CallerSetContent(j, v) ==
    /\ j \in 1..Len(held.elems)
    /\ held' = [held EXCEPT !.elems[j].Content = v]
    /\ last' = Call("CallerSetContent", <<>>, ZeroItem, <<>>, "ok", "nil", <<>>)
    /\ UNCHANGED <<items, file, dirExists, faults, fresh, concVars>>

NextAlias ==
    \/ \E item \in AliasItems, fs \in AllowedWrites : Add(item, fs)
    \/ \E id \in AliasIDs, fs \in AllowedWrites : Archive(id, fs)
    \/ \E fs \in AllowedWrites : Save(fs)
    \/ GetAllKept
    \/ \E j \in 1..MaxItems, v \in CallerTags : CallerSetTag(j, v)
    \/ \E j \in 1..MaxItems, v \in CallerContents : CallerSetContent(j, v)
    \/ \E id \in AliasIDs : GetByID(id)

SpecAlias == Init /\ [][NextAlias]_vars


MutatingOps == {"Load", "Save", "Add", "Update", "Archive", "Delete", "SetItems"}
ReadingOps == {"GetAll", "GetByID", "GetByPrefix"}

\* The item goroutine t adds in its call number n + 1: the IDs of different
\* calls differ and share their first byte.
ThreadItem(t, n) == ContextItem(<<1, t + 4, n>>, <<t>>, <<>>, <<>>, t, <<>>, FALSE)

Request(op, id, item, slice) == [op |-> op, id |-> id, item |-> item, slice |-> slice]

\* The calls goroutine t may make.
Requests(t) ==
    {Request("Add", ThreadItem(t, thr[t].calls).ID, ThreadItem(t, thr[t].calls), <<>>),
     Request("Update", ItemC.ID, ItemC, <<>>),
     Request("Archive", ItemA.ID, ZeroItem, <<>>),
     Request("Delete", ItemA.ID, ZeroItem, <<>>),
     Request("SetItems", <<>>, ZeroItem, <<ItemB>>),
     Request("Save", <<>>, ZeroItem, <<>>),
     Request("Load", <<>>, ZeroItem, <<>>),
     Request("GetAll", <<>>, ZeroItem, <<>>),
     Request("GetByID", ItemA.ID, ZeroItem, <<>>),
     Request("GetByPrefix", <<1>>, ZeroItem, <<>>)}

\* Whether the handler reaches persistLocked on the slice s.
Persists(c, s) ==
    CASE c.op \in {"Add", "Save", "SetItems"} -> TRUE
      [] c.op \in {"Update", "Archive", "Delete"} -> FirstIndex(s, c.id) # 0
      [] OTHER -> FALSE

\* The slice after the in-memory part of the handler.
MemOf(c, s, f, fs) ==
    CASE c.op = "Add" -> AddMem(s, c.item)
      [] c.op = "Update" -> UpdateMem(s, c.item)
      [] c.op = "Archive" -> ArchiveMem(s, c.id)
      [] c.op = "Delete" -> DeleteMem(s, c.id)
      [] c.op = "SetItems" -> Slice(c.slice, Len(c.slice))
      [] c.op = "Load" -> LoadResult(s, f, fs).items
      [] OTHER -> s

\* What the handler returns when it does not reach persistLocked.
EarlyErr(c, s, f, fs) ==
    IF c.op = "Load" THEN LoadResult(s, f, fs).err ELSE "ErrItemNotFound"

\* What the handler returns for the error of persistLocked.
ReturnedErr(c, persistErr) == IF c.op = "SetItems" THEN SetItemsErr(persistErr) ELSE persistErr

\* The whole handler of a mutating call run alone on the state st.
Serial(st, c, fs) ==
    LET s == MemOf(c, st.items, st.file, fs)
        p == PersistLocked(Elems(s), st.file, st.dir, fs)
        persisted == Persists(c, st.items)
        err == IF persisted THEN ReturnedErr(c, p.err) ELSE EarlyErr(c, st.items, st.file, fs)
    IN  [items |-> s,
         file |-> IF persisted THEN p.file ELSE st.file,
         dir |-> IF persisted THEN p.dir ELSE st.dir,
         clean |-> st.clean /\ c.op = "Add" /\ err = "nil",
         adds |-> IF c.op = "Add" THEN st.adds \cup {c.item} ELSE st.adds,
         err |-> err]

\* A goroutine enters a handler.
Invoke(t, c) ==
    /\ thr[t].pc = "idle"
    /\ thr[t].calls < CallsPerThread
    /\ thr' = [thr EXCEPT ![t] = [IdleThread EXCEPT !.pc = "called", !.op = c.op,
                                    !.id = c.id, !.item = c.item, !.slice = c.slice,
                                    !.calls = thr[t].calls]]
    /\ UNCHANGED <<items, file, dirExists, faults, last, fresh, held, mu, ser>>

\* mu.Lock() as one that lets a second writer in.
CanLockShared(t) == TRUE

\* mu.Lock(), first half: the writers' mutex is free.
CanLock(t) == mu.w = 0

LockPending(t) ==
    /\ thr[t].pc = "called" /\ thr[t].op \in MutatingOps
    /\ CanLock(t)
    /\ mu' = [mu EXCEPT !.w = t]
    /\ thr' = [thr EXCEPT ![t].pc = "pending"]
    /\ UNCHANGED <<items, file, dirExists, faults, last, fresh, held, ser>>

\* mu.Lock(), second half: the readers inside have left.
LockEnter(t) ==
    /\ thr[t].pc = "pending"
    /\ mu.readers = {}
    /\ mu' = [mu EXCEPT !.held = TRUE]
    /\ thr' = [thr EXCEPT ![t].pc = "locked"]
    /\ UNCHANGED <<items, file, dirExists, faults, last, fresh, held, ser>>

\* The handler's work on s.items (for Load: ReadFile and Unmarshal).
Mutate(t, fs) ==
    LET c == thr[t]
        persisted == Persists(c, items) IN
    /\ c.pc = "locked"
    /\ fs = "read_fail" => c.op = "Load" /\ file.kind # "absent"
    /\ items' = MemOf(c, items, file, fs)
    /\ faults' = Charge(fs)
    /\ thr' = [thr EXCEPT ![t].pc = IF persisted THEN "mutated" ELSE "unlocking",
                          ![t].fs = fs,
                          ![t].err = IF persisted THEN "nil"
                                     ELSE EarlyErr(c, items, file, fs)]
    /\ UNCHANGED <<file, dirExists, last, fresh, held, mu, ser>>

\* persistLocked up to MarshalIndent: ensureDir, then the bytes of s.items.
Marshal(t, fs) ==
    LET d == EnsureDir(dirExists, fs) IN
    /\ thr[t].pc = "mutated"
    /\ dirExists' = d.dir
    /\ faults' = Charge(fs)
    /\ thr' = [thr EXCEPT ![t].pc = IF d.err = "nil" THEN "marshalled" ELSE "unlocking",
                          ![t].fs = fs,
                          ![t].err = ReturnedErr(thr[t], d.err),
                          ![t].data = MarshalIndent(Elems(items))]
    /\ UNCHANGED <<items, file, last, fresh, held, mu, ser>>

\* persistLocked's os.WriteFile of the marshalled bytes.
Write(t, fs) ==
    LET w == WriteFile(file, thr[t].data, fs) IN
    /\ thr[t].pc = "marshalled"
    /\ file' = w.file
    /\ faults' = Charge(fs)
    /\ thr' = [thr EXCEPT ![t].pc = "unlocking",
                          ![t].fs = fs,
                          ![t].err = ReturnedErr(thr[t], w.err)]
    /\ UNCHANGED <<items, dirExists, last, fresh, held, mu, ser>>

\* A handler that returns its error without the deferred Unlock.
UnlockIfNil(t) ==
    LET r == Serial(ser, thr[t], thr[t].fs) IN
    /\ thr[t].pc = "unlocking"
    /\ mu' = IF thr[t].err = "nil" THEN [mu EXCEPT !.w = 0, !.held = FALSE] ELSE mu
    /\ ser' = [items |-> r.items, file |-> r.file, dir |-> r.dir, clean |-> r.clean,
               adds |-> r.adds]
    /\ thr' = [thr EXCEPT ![t].pc = "idle", ![t].serErr = r.err,
                          ![t].calls = thr[t].calls + 1]
    /\ UNCHANGED <<items, file, dirExists, faults, last, fresh, held>>

\* The deferred mu.Unlock() and the return.
Unlock(t) ==
    LET r == Serial(ser, thr[t], thr[t].fs) IN
    /\ thr[t].pc = "unlocking"
    /\ mu' = [mu EXCEPT !.w = 0, !.held = FALSE]
    /\ ser' = [items |-> r.items, file |-> r.file, dir |-> r.dir, clean |-> r.clean,
               adds |-> r.adds]
    /\ thr' = [thr EXCEPT ![t].pc = "idle", ![t].serErr = r.err,
                          ![t].calls = thr[t].calls + 1]
    /\ UNCHANGED <<items, file, dirExists, faults, last, fresh, held>>

\* mu.RLock() as one that does not wait for a writer.
CanRLockAlways(t) == TRUE

\* mu.RLock(): no writer holds or has announced itself.
CanRLock(t) == mu.w = 0

RLock(t) ==
    /\ thr[t].pc = "called" /\ thr[t].op \in ReadingOps
    /\ CanRLock(t)
    /\ mu' = [mu EXCEPT !.readers = mu.readers \cup {t}]
    /\ thr' = [thr EXCEPT ![t].pc = "rlocked"]
    /\ UNCHANGED <<items, file, dirExists, faults, last, fresh, held, ser>>

\* What a read returns on the slice s.
ReadOf(c, s) ==
    CASE c.op = "GetAll" -> [err |-> "nil", out |-> GetAllResult(s)]
      [] c.op = "GetByID" ->
            [err |-> GetByIDResult(s, c.id).err, out |-> <<GetByIDResult(s, c.id).item>>]
      [] OTHER ->
            [err |-> GetByPrefixResult(s, c.id).err,
             out |-> <<GetByPrefixResult(s, c.id).item>>]

\* The body of GetAll, GetByID or GetByPrefix.
Read(t) ==
    /\ thr[t].pc = "rlocked"
    /\ thr' = [thr EXCEPT ![t].pc = "runlocking",
                          ![t].err = ReadOf(thr[t], items).err,
                          ![t].out = ReadOf(thr[t], items).out,
                          ![t].seen = Elems(ser.items)]
    /\ UNCHANGED <<items, file, dirExists, faults, last, fresh, held, mu, ser>>

\* The deferred mu.RUnlock() and the return.
RUnlock(t) ==
    /\ thr[t].pc = "runlocking"
    /\ mu' = [mu EXCEPT !.readers = mu.readers \ {t}]
    /\ thr' = [thr EXCEPT ![t].pc = "idle", ![t].calls = thr[t].calls + 1]
    /\ UNCHANGED <<items, file, dirExists, faults, last, fresh, held, ser>>

\* Outcomes of the steps that touch the file system.
MutateOutcomes(t) == IF thr[t].op = "Load" THEN AllowedReads ELSE {"ok"}
MarshalOutcomes == {fs \in AllowedWrites : fs \in {"ok", "mkdir_fail"}}
WriteFileOutcomes ==
    {fs \in AllowedWrites : fs \in {"ok", "open_fail", "write_fail", "close_fail"}}

\* The store after NewStorage, Load and a first Add of ItemA.
InitConc ==
    /\ items = AddMem(EmptySlice, ItemA)
    /\ file = ArrayFile(MarshalIndent(<<ItemA>>))
    /\ dirExists = TRUE
    /\ faults = 0
    /\ last = [op |-> "NewStorage", id |-> <<>>, item |-> ZeroItem, slice |-> <<>>,
               fs |-> "ok", err |-> "nil", out |-> <<>>, pre |-> <<>>,
               preSlice |-> EmptySlice, preFile |-> AbsentFile, preDir |-> FALSE]
    /\ fresh = EmptySlice
    /\ held = NoCopy
    /\ mu = FreeMutex
    /\ thr = [t \in Threads |-> IdleThread]
    /\ ser = Committed(items, file, dirExists)

NextConc ==
    \E t \in Threads :
        \/ \E c \in Requests(t) : Invoke(t, c)
        \/ LockPending(t)
        \/ LockEnter(t)
        \/ \E fs \in MutateOutcomes(t) : Mutate(t, fs)
        \/ \E fs \in MarshalOutcomes : Marshal(t, fs)
        \/ \E fs \in WriteFileOutcomes : Write(t, fs)
        \/ Unlock(t)
        \/ RLock(t)
        \/ Read(t)
        \/ RUnlock(t)

SpecConc == InitConc /\ [][NextConc]_vars

\* The steps of goroutine t inside a call.
ThreadStep(t) ==
    \/ LockPending(t)
    \/ LockEnter(t)
    \/ \E fs \in MutateOutcomes(t) : Mutate(t, fs)
    \/ \E fs \in MarshalOutcomes : Marshal(t, fs)
    \/ \E fs \in WriteFileOutcomes : Write(t, fs)
    \/ Unlock(t)
    \/ RLock(t)
    \/ Read(t)
    \/ RUnlock(t)

\* One call of each shape of handler: one that always persists, one that
\* returns early when the ID is missing, Load, and a read.
LiveRequests(t) ==
    {Request("Add", ThreadItem(t, thr[t].calls).ID, ThreadItem(t, thr[t].calls), <<>>),
     Request("Delete", ItemA.ID, ZeroItem, <<>>),
     Request("Load", <<>>, ZeroItem, <<>>),
     Request("GetByID", ItemA.ID, ZeroItem, <<>>)}

NextConcFair ==
    \E t \in Threads :
        \/ \E c \in LiveRequests(t) : Invoke(t, c)
        \/ ThreadStep(t)

\* The scheduler runs every goroutine that can take a step, and every file
\* operation returns.
SpecConcFair ==
    InitConc /\ [][NextConcFair]_vars /\ \A t \in Threads : WF_vars(ThreadStep(t))

\* ------------------------------------------------ two processes, one file
\* Two processes, each with a store of its own on the same path: process 1
\* holds items, process 2 holds fresh.  No lock spans processes, so the
\* system calls of os.WriteFile (open with O_TRUNC, then write) of the two
\* interleave.  thr[p] is the position of process p.
Procs == {1, 2}
Mem(p) == IF p = 1 THEN items ELSE fresh

\* The item process p adds in its call number n + 1.
ProcItem(p, n) ==
    ContextItem(<<1, p + 4, n>>, [i \in 1..p |-> p], <<>>, <<>>, p, <<>>, FALSE)

RECURSIVE SumLen(_)
SumLen(strs) == IF strs = <<>> THEN 0 ELSE Len(Head(strs)) + SumLen(Tail(strs))

\* Bytes of one object of the document, counted per element of its strings.
ObjSize(o) ==
    4 + Len(o.id) + Len(o.content)
    + (IF "project" \in DOMAIN o THEN 1 + Len(o.project) ELSE 0)
    + (IF "tags" \in DOMAIN o THEN 1 + Len(o.tags) + SumLen(o.tags) ELSE 0)
    + (IF "completed_at" \in DOMAIN o THEN 2 ELSE 0)

RECURSIVE DocSize(_)
DocSize(objs) == IF objs = <<>> THEN 2 ELSE ObjSize(Head(objs)) + DocSize(Tail(objs))

\* Bytes the path holds.
FileSize(f) == IF f.kind = "array" THEN DocSize(f.objs) ELSE 0

\* write(fd, data) at offset 0 of what the path holds now: a longer content
\* keeps its tail behind the new document.
Overlay(f, data) ==
    IF FileSize(f) > DocSize(data) THEN GarbledFile ELSE ArrayFile(data)

\* Load in process p.
ProcLoad(p) ==
    LET r == LoadResult(Mem(p), file, "ok") IN
    /\ thr[p].pc = "idle"
    /\ items' = IF p = 1 THEN r.items ELSE items
    /\ fresh' = IF p = 2 THEN r.items ELSE fresh
    /\ thr' = [thr EXCEPT ![p].op = IF r.err = "nil" THEN "Load" ELSE @,
                          ![p].err = r.err,
                          ![p].seen = IF r.err = "nil" THEN Elems(r.items) ELSE @]
    /\ last' = Call("ProcLoad", <<>>, ZeroItem, <<>>, "ok", r.err, <<p>>)
    /\ UNCHANGED <<file, dirExists, faults, held, mu, ser>>

\* Add in process p up to the open of os.WriteFile: the item is appended,
\* the document marshalled, the directory made and the file truncated.
ProcOpen(p) ==
    LET item == ProcItem(p, thr[p].calls)
        s == AddMem(Mem(p), item) IN
    /\ thr[p].pc = "idle" /\ thr[p].op = "Load"
    /\ Mem(p).len < MaxItems
    /\ thr[p].calls < CallsPerThread + 1
    /\ items' = IF p = 1 THEN s ELSE items
    /\ fresh' = IF p = 2 THEN s ELSE fresh
    /\ dirExists' = TRUE
    /\ file' = TruncatedFile
    /\ thr' = [thr EXCEPT ![p].pc = "opened", ![p].op = "Add", ![p].item = item,
                          ![p].data = MarshalIndent(Elems(s)),
                          ![p].calls = @ + 1]
    /\ last' = Call("ProcOpen", item.ID, item, <<>>, "ok", "nil", <<p>>)
    /\ UNCHANGED <<faults, held, mu, ser>>

\* The write and close of os.WriteFile in process p; Add returns nil.
ProcWrite(p) ==
    /\ thr[p].pc = "opened"
    /\ file' = Overlay(file, thr[p].data)
    /\ thr' = [thr EXCEPT ![p].pc = "idle", ![p].err = "nil"]
    /\ last' = Call("ProcWrite", thr[p].item.ID, thr[p].item, <<>>, "ok", "nil", <<p>>)
    /\ UNCHANGED <<items, fresh, dirExists, faults, held, mu, ser>>

NextProcs == \E p \in Procs : ProcLoad(p) \/ ProcOpen(p) \/ ProcWrite(p)

SpecProcs == Init /\ [][NextProcs]_vars

\* ------------------------------------------------- items handed to Update
\* Update takes any item: one with the ID of a stored item and another
\* creation time among them.
ItemA2 == ContextItem(ItemA.ID, <<2>>, <<>>, <<>>, 4, <<>>, FALSE)
StampItems == {ItemA, ItemA2, ItemB}
StampIDs == {ItemA.ID, ItemB.ID}

NextStamp ==
    \/ \E item \in {ItemA, ItemB}, fs \in AllowedWrites : Add(item, fs)
    \/ \E item \in StampItems, fs \in AllowedWrites : Update(item, fs)
    \/ \E id \in StampIDs, fs \in AllowedWrites : Archive(id, fs)
    \/ \E id \in StampIDs, fs \in AllowedWrites : Delete(id, fs)
    \/ \E fs \in AllowedWrites : Save(fs)
    \/ \E fs \in AllowedReads : Load(fs)

SpecStamp == Init /\ [][NextStamp]_vars

\* ------------------------------------------- a store that was never loaded
\* NewStorage on the path followed by Add that reads the file first.
AddLoaded(item, fs) ==
    LET s == AddMem(LoadResult(EmptySlice, file, "ok").items, item)
        p == PersistLocked(Elems(s), file, dirExists, fs) IN
    /\ s.len <= MaxItems
    /\ fresh' = s
    /\ file' = p.file
    /\ dirExists' = p.dir
    /\ faults' = Charge(fs)
    /\ last' = Call("AddUnloaded", item.ID, item, <<>>, fs, p.err, <<>>)
    /\ UNCHANGED <<items, held, concVars>>

\* A second store on the same path: NewStorage (items: make([]ContextItem, 0))
\* directly followed by Add.
AddUnloaded(item, fs) ==
    LET s == AddMem(EmptySlice, item)
        p == PersistLocked(Elems(s), file, dirExists, fs) IN
    /\ fresh' = s
    /\ file' = p.file
    /\ dirExists' = p.dir
    /\ faults' = Charge(fs)
    /\ last' = Call("AddUnloaded", item.ID, item, <<>>, fs, p.err, <<>>)
    /\ UNCHANGED <<items, held, concVars>>

NextUnloaded ==
    \/ \E fs \in AllowedReads : Load(fs)
    \/ \E item \in InputItems, fs \in AllowedWrites : Add(item, fs)
    \/ \E item \in InputItems, fs \in AllowedWrites : AddUnloaded(item, fs)

SpecUnloaded == Init /\ [][NextUnloaded]_vars

\* ------------------------------------------------------- the storage path
\* A path is the sequence of its elements; an absolute path starts with "/",
\* <<>> is the empty string.
SearchLimit == 10
ContextDirName == ".contextkeeper"

\* filepath.Join(dir, ".contextkeeper"); Join cleans "./x" to "x".
JoinContext(dir) == IF dir = <<".">> THEN <<ContextDirName>> ELSE Append(dir, ContextDirName)

\* filepath.Dir: the root is its own parent.
Dir(p) == IF Len(p) <= 1 THEN p ELSE SubSeq(p, 1, Len(p) - 1)

\* The working directory d levels below the root.
Cwd(d) == <<"/">> \o [i \in 1..d |-> "d"]

\* checkLocalContext: os.Stat of dir/.contextkeeper; "." is the working
\* directory.  ctxDirs are the directories that hold a .contextkeeper.
CheckLocalContext(dir, cwd, ctxDirs) ==
    IF (IF dir = <<".">> THEN cwd ELSE dir) \in ctxDirs THEN JoinContext(dir) ELSE <<>>

\* searchParents: the loop from its i-th round on.
RECURSIVE SearchParents(_, _, _, _)
SearchParents(current, i, cwd, ctxDirs) ==
    IF i >= SearchLimit THEN <<>>
    ELSE IF CheckLocalContext(current, cwd, ctxDirs) # <<>>
         THEN CheckLocalContext(current, cwd, ctxDirs)
    ELSE IF Dir(current) = current THEN <<>>
    ELSE SearchParents(Dir(current), i + 1, cwd, ctxDirs)

GetGlobalDefault(goos) ==
    CASE goos = "windows" -> <<"%APPDATA%", "ContextKeeper">>
      [] goos = "darwin" -> <<"$HOME", "Library", "Application Support", "ContextKeeper">>
      [] OTHER -> <<"$HOME", ".local", "share", "contextkeeper">>

\* Finder.FindStoragePath.  env is the value of CK_STORAGE_PATH, which the
\* function does not read; getwd tells whether os.Getwd succeeds.
FindStoragePathResult(explicitPath, env, cwd, ctxDirs, getwd, goos) ==
    IF explicitPath # <<>> THEN explicitPath
    ELSE IF CheckLocalContext(<<".">>, cwd, ctxDirs) # <<>>
         THEN CheckLocalContext(<<".">>, cwd, ctxDirs)
    ELSE IF getwd /\ SearchParents(cwd, 0, cwd, ctxDirs) # <<>>
         THEN SearchParents(cwd, 0, cwd, ctxDirs)
    ELSE GetGlobalDefault(goos)

ExplicitPaths == {<<>>, <<".", "project">>, <<"/", "tmp", "test-project">>}
EnvValues == {<<>>, <<"/", "custom", "path">>}
Systems == {"linux", "darwin", "windows"}

\* The directories from dir up to the root.
Ancestors(dir) == {SubSeq(dir, 1, n) : n \in 1..Len(dir)}

\* A call about to be made: the argument, the environment, the working
\* directory and the directories that hold a .contextkeeper.
InitFinder ==
    /\ items = EmptySlice
    /\ file = AbsentFile
    /\ dirExists = FALSE
    /\ faults = 0
    /\ fresh = EmptySlice
    /\ held = NoCopy
    /\ mu = FreeMutex
    /\ thr = [t \in Threads |-> IdleThread]
    /\ ser = Committed(EmptySlice, AbsentFile, FALSE)
    /\ \E explicitPath \in ExplicitPaths, env \in EnvValues, d \in 0..MaxDepth,
          getwd \in BOOLEAN, goos \in Systems :
          \E ctxDirs \in {c \in SUBSET Ancestors(Cwd(d)) : Cardinality(c) <= 2} :
             last = [op |-> "args", explicitPath |-> explicitPath, env |-> env,
                     cwd |-> Cwd(d), ctxDirs |-> ctxDirs, getwd |-> getwd,
                     goos |-> goos, out |-> <<>>]

FindStoragePath ==
    /\ last.op = "args"
    /\ last' = [last EXCEPT !.op = "FindStoragePath",
                            !.out = FindStoragePathResult(last.explicitPath, last.env,
                                       last.cwd, last.ctxDirs, last.getwd, last.goos)]
    /\ UNCHANGED <<items, file, dirExists, faults, fresh, held, concVars>>

NextFinder == FindStoragePath

SpecFinder == InitFinder /\ [][NextFinder]_vars

\* ------------------------------------------------- callers with fresh IDs
\* Callers that never Add an ID the store holds.  ItemX has an ID that is
\* not valid UTF-8, ItemR the ID json.Marshal turns it into.
ItemR == ContextItem(<<ReplRune>>, <<1>>, <<>>, <<>>, 1, <<>>, FALSE)
ItemX == ContextItem(<<BadByte>>, <<2>>, <<>>, <<>>, 2, <<>>, FALSE)
UniqueItems == {ItemA, ItemR, ItemX}
UniqueIDs == {it.ID : it \in UniqueItems}

\* Add of an ID that is not stored.
AddNew(item, fs) ==
    /\ FirstIndex(items, item.ID) = 0
    /\ Add(item, fs)

NextUnique ==
    \/ \E item \in UniqueItems, fs \in AllowedWrites : AddNew(item, fs)
    \/ \E item \in UniqueItems, fs \in AllowedWrites : Update(item, fs)
    \/ \E id \in UniqueIDs, fs \in AllowedWrites : Archive(id, fs)
    \/ \E id \in UniqueIDs, fs \in AllowedWrites : Delete(id, fs)
    \/ \E fs \in AllowedWrites : Save(fs)
    \/ \E fs \in AllowedReads : Load(fs)

SpecUnique == Init /\ [][NextUnique]_vars

\* ------------------------------------------------------ the search command
\* Strings are sequences of ASCII codes here: 65..90 are A..Z, 97..122 a..z,
\* 44 the comma and 32 the space (see the tags section).
UpperCase == 65..90
CaseOffset == 32

\* strings.ToLower on ASCII.
ToLower(s) == [i \in 1..Len(s) |-> IF s[i] \in UpperCase THEN s[i] + CaseOffset ELSE s[i]]

\* strings.Contains
Contains(s, substr) ==
    \E i \in 0..(Len(s) - Len(substr)) : SubSeq(s, i + 1, i + Len(substr)) = substr

\* containsTags: every filter tag is one of the item's tags.
ContainsTags(itemTags, filterTags) ==
    \A i \in 1..Len(filterTags) : \E j \in 1..Len(itemTags) : itemTags[j] = filterTags[i]

FilterActive(its) == SelectSeq(its, LAMBDA it : it.CompletedAt = <<>>)

FilterByTags(its, tags) ==
    SelectSeq(its, LAMBDA it : ContainsTags(it.Tags, ParseTags(tags)))

\* matchesQuery that compares the content and the tags as they are.
MatchesQueryCaseSensitive(item, query) ==
    \/ Contains(item.Content, query)
    \/ \E j \in 1..Len(item.Tags) : Contains(item.Tags[j], query)

\* matchesQuery: query is the lowered query.
MatchesQuery(item, query) ==
    \/ Contains(ToLower(item.Content), query)
    \/ \E j \in 1..Len(item.Tags) : Contains(ToLower(item.Tags[j]), query)

FilterByQuery(its, query) ==
    IF query = <<>> THEN its
    ELSE SelectSeq(its, LAMBDA it : MatchesQuery(it, ToLower(query)))

\* applySearchFilters: completed filter, tag filter, query filter.
ApplySearchFilters(its, query, tagFilter, showAll) ==
    LET active == IF showAll THEN its ELSE FilterActive(its)
        tagged == IF tagFilter # <<>> THEN FilterByTags(active, tagFilter) ELSE active
    IN  IF query # <<>> THEN FilterByQuery(tagged, query) ELSE tagged

SearchItemP ==
    ContextItem(<<1, 1, 1, 1, 1, 1, 1, 1>>, <<65, 98>>, <<>>, << <<120>> >>, 1, <<>>, FALSE)
SearchItemQ ==
    ContextItem(<<2, 2, 2, 2, 2, 2, 2, 2>>, <<99>>, <<>>, << <<120>>, <<65>> >>, 2, <<3>>, FALSE)
SearchItemT ==
    ContextItem(<<3, 3, 3, 3, 3, 3, 3, 3>>, <<99>>, <<>>, << <<121>> >>, 3, <<>>, TRUE)
SearchItems == {SearchItemP, SearchItemQ, SearchItemT}
Queries == {<<>>, <<97>>, <<65, 66>>, <<100>>}
TagFilters == {<<>>, <<120>>, <<120, 44, 65>>, <<32>>, <<120, 32, 120>>}

\* runSearch: Load, GetAll, the filters, then the output, which shows
\* item.ID[:8] (--json) or item.ID[:6] of every result.
SearchCommand(query, tagFilter, showAll, jsonOut, rfs) ==
    LET l == LoadResult(EmptySlice, file, rfs)
        found == ApplySearchFilters(GetAllResult(l.items), query, tagFilter, showAll)
        width == IF jsonOut THEN DisplayLen ELSE 6
        err == CASE l.err # "nil" -> l.err
                 [] \E i \in 1..Len(found) : Len(found[i].ID) < width -> "panic"
                 [] OTHER -> "nil"
    IN  /\ rfs = "read_fail" => file.kind # "absent"
        /\ fresh' = l.items
        /\ faults' = Charge(rfs)
        /\ last' = CmdCall("SearchCommand", query, ZeroItem, Elems(l.items), rfs, err,
                           IF Proceeds(l) THEN found ELSE <<>>,
                           [calls |-> <<"NewStorage", "Load">>
                                      \o (IF Proceeds(l) THEN <<"GetAll">> ELSE <<>>),
                            loadErr |-> l.err, tagFilter |-> tagFilter,
                            showAll |-> showAll, jsonOut |-> jsonOut])
        /\ UNCHANGED <<items, file, dirExists, held, concVars>>

NextSearch ==
    \/ \E item \in SearchItems, fs \in AllowedWrites : Seed(item, fs)
    \/ \E query \in Queries, tagFilter \in TagFilters, showAll \in BOOLEAN,
          jsonOut \in BOOLEAN, rfs \in AllowedReads :
          Seeding /\ SearchCommand(query, tagFilter, showAll, jsonOut, rfs)

SpecSearch == Init /\ [][NextSearch]_vars

\* -------------------------------------------------------- the init command
StatOutcomes == {"ok", "stat_fail"}

\* initCommand that creates items.json with os.Create whatever is there.
InitCommandCreate(stat, fs) ==
    LET d == EnsureDir(dirExists, fs)
        w == IF fs \in {"open_fail", "mkdir_fail"} THEN [err |-> "io", file |-> file]
             ELSE [err |-> "nil", file |-> TruncatedFile]
    IN  /\ faults + Failures(<<stat, fs>>) <= MaxFaults
        /\ fs = "mkdir_fail" => ~dirExists
        /\ stat = "ok"
        /\ fs \notin {"write_fail", "close_fail"}
        /\ dirExists' = d.dir
        /\ file' = w.file
        /\ faults' = faults + Failures(<<stat, fs>>)
        /\ last' = CmdCall("InitCommand", <<>>, ZeroItem, <<>>, fs, w.err, <<>>,
                           [stat |-> stat])
        /\ UNCHANGED <<items, fresh, held, concVars>>

\* initCommand: MkdirAll of .contextkeeper; when os.Stat finds items.json
\* nothing more; otherwise os.WriteFile of "[]".  stat_fail is a Stat error
\* on a file that exists.
InitCommand(stat, fs) ==
    LET d == EnsureDir(dirExists, fs)
        seen == file.kind # "absent" /\ stat = "ok"
        writes == d.err = "nil" /\ ~seen
        w == WriteFile(file, <<>>, fs)
        err == IF d.err # "nil" THEN d.err ELSE IF seen THEN "nil" ELSE w.err
    IN  /\ faults + Failures(<<stat, fs>>) <= MaxFaults
        /\ fs = "mkdir_fail" => ~dirExists
        /\ stat = "stat_fail" => file.kind # "absent"
        /\ seen => fs \in {"ok", "mkdir_fail"}
        /\ dirExists' = d.dir
        /\ file' = IF writes THEN w.file ELSE file
        /\ faults' = faults + Failures(<<stat, fs>>)
        /\ last' = CmdCall("InitCommand", <<>>, ZeroItem, <<>>, fs, err, <<>>,
                           [stat |-> stat])
        /\ UNCHANGED <<items, fresh, held, concVars>>

NextInit ==
    \/ \E stat \in StatOutcomes, fs \in WriteOutcomes : InitCommand(stat, fs)
    \/ \E item \in InputItems, fs \in AllowedWrites : Add(item, fs)
    \/ \E fs \in AllowedReads : Load(fs)

SpecInit == Init /\ [][NextInit]_vars

\* ------------------------------------------------------------------ claims
Mutations == {"Add", "Update", "Archive", "Delete", "Save", "SetItems"}

\* Positions of the stored items whose ID starts with prefix.
MatchingPositions(elems, prefix) == {i \in 1..Len(elems) : HasPrefix(elems[i].ID, prefix)}

\* Whether some stored item has the ID.
Stored(elems, id) == \E i \in 1..Len(elems) : elems[i].ID = id

\* Position of the first stored item with the ID.
FirstPos(elems, id) ==
    CHOOSE i \in 1..Len(elems) : elems[i].ID = id /\ \A j \in 1..(i - 1) : elems[j].ID # id

\* The sequence without its element at position i.
Without(elems, i) == [j \in 1..(Len(elems) - 1) |-> IF j < i THEN elems[j] ELSE elems[j + 1]]

\* C1: GetByPrefix(p) returns ItemNotFound iff no stored ID starts with p,
\* the single matching item iff exactly one does, and AmbiguousID iff two or
\* more do.
PrefixCardinalityLaw ==
    last.op = "GetByPrefix" =>
        LET m == MatchingPositions(last.pre, last.id) IN
        /\ last.err = "ErrItemNotFound" <=> Cardinality(m) = 0
        /\ last.err = "nil" <=> Cardinality(m) = 1
        /\ last.err = "nil" => \A i \in m : last.out = <<last.pre[i]>>
        /\ last.err = "ErrAmbiguousID" <=> Cardinality(m) >= 2

PrefixAmbiguousSeen ==
    /\ last.op = "GetByPrefix"
    /\ last.err = "ErrAmbiguousID"
    /\ Cardinality(MatchingPositions(last.pre, last.id)) >= 2
    /\ last.id # <<>>

\* C2: whenever Add, Update, Archive, Delete, Save or SetItems returns
\* success, the file holds the serialization of the in-memory sequence.
WriteThrough ==
    (last.op \in Mutations /\ last.err = "nil") =>
        file = ArrayFile(MarshalIndent(Elems(items)))

\* Strings json.Marshal writes unchanged.
ValidUTF8(str) == \A i \in 1..Len(str) : str[i] # BadByte

ValidItem(it) ==
    /\ ValidUTF8(it.ID) /\ ValidUTF8(it.Content) /\ ValidUTF8(it.Project)
    /\ \A i \in 1..Len(it.Tags) : ValidUTF8(it.Tags[i])

\* C3 as stated: after Adds, Save followed by Load on a fresh store yields
\* GetAll equal to the original sequence, and GetByID of each added ID
\* returns an item equal in all fields to the one added.
RoundTripAsStated ==
    last.op = "FreshLoad" =>
        /\ GetAllResult(fresh) = GetAllResult(items)
        /\ \A i \in 1..items.len :
              GetByIDResult(fresh, items.backing[i].ID) =
                  [err |-> "nil", item |-> items.backing[i]]

\* C3 as amended: when every string of the added items is valid UTF-8, the
\* fresh store's GetAll equals the original sequence in order, and GetByID of
\* each added ID returns the first item added with that ID, equal in all
\* fields.
RoundTrip ==
    (last.op = "FreshLoad" /\ \A i \in 1..items.len : ValidItem(items.backing[i])) =>
        /\ last.err = "nil"
        /\ GetAllResult(fresh) = GetAllResult(items)
        /\ \A i \in 1..items.len :
              LET id == items.backing[i].ID IN
              GetByIDResult(fresh, id) =
                  [err |-> "nil", item |-> Elems(items)[FirstPos(Elems(items), id)]]

RoundTripSeen ==
    /\ last.op = "FreshLoad"
    /\ items.len = 2
    /\ \A i \in 1..items.len : ValidItem(items.backing[i])
    /\ items.backing[1].ID # items.backing[2].ID
    /\ \E i \in 1..items.len : items.backing[i].Project # <<>>
    /\ fresh.len = 2

\* A call of Add, Update, Archive or Delete on an existing target whose
\* directory creation or file write failed.
PersistFailed ==
    /\ last.op \in {"Add", "Update", "Archive", "Delete"}
    /\ last.fs # "ok"
    /\ last.op # "Add" => Stored(last.pre, last.id)

\* The in-memory sequence is the one before the call with the call's change.
MutationApplied ==
    LET i == FirstPos(last.pre, last.id) IN
    CASE last.op = "Add" -> Elems(items) = Append(last.pre, last.item)
      [] last.op = "Update" -> Elems(items) = [last.pre EXCEPT ![i] = last.item]
      [] last.op = "Archive" -> Elems(items) = [last.pre EXCEPT ![i].Archived = TRUE]
      [] last.op = "Delete" -> Elems(items) = Without(last.pre, i)

\* C6 as stated: when the write fails the call returns an error, the file is
\* left as it was before the call, and the in-memory sequence contains the
\* mutation.
PersistFailureAsStated ==
    PersistFailed =>
        /\ last.err # "nil"
        /\ file = last.preFile
        /\ MutationApplied

\* C6 as amended: when the write fails the call returns an error and the
\* in-memory sequence contains the mutation; the file is left as it was
\* before the call when the failure comes before the file is opened, holds a
\* cut document when the write itself fails, and holds the new document
\* when only the close fails.
PersistFailure ==
    PersistFailed =>
        /\ last.err = "io"
        /\ last.fs \in {"mkdir_fail", "open_fail"} => file = last.preFile
        /\ last.fs = "write_fail" => file = TruncatedFile
        /\ last.fs = "close_fail" => file = ArrayFile(MarshalIndent(Elems(items)))
        /\ MutationApplied

PersistFailureSeen ==
    /\ PersistFailed
    /\ last.op = "Update"
    /\ last.fs = "write_fail"
    /\ last.preFile.kind = "array"
    /\ file = TruncatedFile
    /\ Elems(items) # last.pre

\* C7: Delete(id) where no stored item has ID id returns ItemNotFound, leaves
\* the in-memory sequence unchanged and does not write the file.
DeleteIsStrict ==
    (last.op = "Delete" /\ ~Stored(last.pre, last.id)) =>
        /\ last.err = "ErrItemNotFound"
        /\ Elems(items) = last.pre
        /\ file = last.preFile
        /\ dirExists = last.preDir

DeleteMissingSeen ==
    /\ last.op = "Delete"
    /\ ~Stored(last.pre, last.id)
    /\ MatchingPositions(last.pre, last.id) # {}
    /\ last.preFile.kind = "array"
    /\ last.err = "ErrItemNotFound"

\* C8: Update(item) and Archive(id) targeting an ID that no stored item has
\* return ItemNotFound and leave the in-memory sequence and the file
\* unchanged.
UpdateArchiveMissing ==
    (last.op \in {"Update", "Archive"} /\ ~Stored(last.pre, last.id)) =>
        /\ last.err = "ErrItemNotFound"
        /\ Elems(items) = last.pre
        /\ file = last.preFile
        /\ dirExists = last.preDir

UpdateMissingSeen ==
    /\ last.op = "Update"
    /\ ~Stored(last.pre, last.id)
    /\ Len(last.pre) > 0
    /\ last.preFile.kind = "array"
    /\ last.err = "ErrItemNotFound"

\* The items a store with no earlier content reads from a document.
Decoded(objs) == [i \in 1..Len(objs) |-> UnmarshalItem(ZeroItem, objs[i])]

\* C9: after a successful Load, GetAll equals exactly the array stored in the
\* file, in file order, whatever the in-memory sequence was before; no field
\* value of the previous in-memory sequence survives.
LoadReplaces ==
    (last.op = "Load" /\ last.err = "nil" /\ file.kind = "array") =>
        GetAllResult(items) = Decoded(file.objs)

\* C10: Load on a path where no file exists returns no error and leaves the
\* store with zero items, whatever it held before, and creates no file.
EmptyStoreLoad ==
    (last.op = "Load" /\ last.preFile.kind = "absent") =>
        /\ last.err = "nil"
        /\ GetAllResult(items) = <<>>
        /\ file = AbsentFile
        /\ dirExists = last.preDir

EmptyStoreLoadSeen ==
    /\ last.op = "Load"
    /\ last.preFile.kind = "absent"
    /\ Len(last.pre) > 0
    /\ last.err = "nil"

\* The elements of a sequence.
Range(seq) == {seq[i] : i \in 1..Len(seq)}

\* C4: concurrent mutations on one store are serialized: whenever no
\* mutation holds the lock, the in-memory sequence and the file are those of
\* the calls run one at a time in lock order, every call returned what it
\* returns in that order, and concurrent Adds of distinct items that all
\* succeeded are all in memory and in the file.
MutationsSerialized ==
    /\ mu.w = 0 =>
          /\ Elems(items) = Elems(ser.items)
          /\ file = ser.file
          /\ dirExists = ser.dir
    /\ \A t \in Threads :
          (thr[t].pc = "idle" /\ thr[t].op \in MutatingOps) => thr[t].err = thr[t].serErr
    /\ (mu.w = 0 /\ ser.clean) =>
          /\ ser.adds \subseteq Range(Elems(items))
          /\ items.len = 1 + Cardinality(ser.adds)
          /\ file = ArrayFile(MarshalIndent(Elems(items)))

ConcurrentAddsDone ==
    /\ \A t \in Threads : thr[t].pc = "idle" /\ thr[t].op = "Add" /\ thr[t].err = "nil"
    /\ ser.clean
    /\ Cardinality(ser.adds) = NumThreads
    /\ items.len = 1 + NumThreads

\* What a read call has returned or is about to return agrees with the
\* store as the last finished mutation left it.
ReadIsSnapshot(t) ==
    thr[t].pc = "runlocking" =>
        LET r == ReadOf(thr[t], Slice(thr[t].seen, Len(thr[t].seen))) IN
        thr[t].err = r.err /\ thr[t].out = r.out

\* A step of a read call leaves the slice, the file and the directory alone.
ReadFrame ==
    \A t \in Threads :
        (thr'[t].op \in ReadingOps /\ thr'[t] # thr[t]) =>
            UNCHANGED <<items, file, dirExists>>

\* C5: reads hold only a shared lock: none is in progress while a mutation
\* holds the lock, each returns a snapshot of the state some finished
\* mutation left, and no read changes the in-memory sequence or the file.
ReadsShareLock ==
    /\ [](mu.held => mu.readers = {})
    /\ [](\A t \in Threads : ReadIsSnapshot(t))
    /\ [][ReadFrame]_vars

TwoReadsInProgress ==
    /\ Cardinality(mu.readers) >= 2
    /\ \E t \in mu.readers : thr[t].pc = "runlocking" /\ thr[t].out # <<>>

\* A document that is not a JSON array of items.
NotItemArray(f) ==
    \/ f.kind \in {"truncated", "null", "object"}
    \/ f.kind = "array" /\ HasTypeError(f.objs)

\* C11 as stated: Load on a file that exists but cannot be read, or whose
\* content is not a JSON array of items, returns an error.
LoadRejectsAsStated ==
    (last.op = "Load" /\ (last.fs = "read_fail" \/ NotItemArray(last.preFile))) =>
        last.err # "nil"

\* C11 as amended: Load returns an error when the file cannot be read, is not
\* valid JSON, holds a value other than an array or null, or holds an array
\* with a value of the wrong type; the literal null loads as zero items.
LoadRejects ==
    last.op = "Load" =>
        /\ last.fs = "read_fail" => last.err = "io"
        /\ (last.fs = "ok" /\ NotItemArray(last.preFile) /\ last.preFile.kind # "null") =>
              last.err = "decode"
        /\ (last.fs = "ok" /\ last.preFile.kind = "null") =>
              last.err = "nil" /\ GetAllResult(items) = <<>>

LoadRejectsSeen ==
    /\ last.op = "Load"
    /\ last.preFile.kind = "array"
    /\ HasTypeError(last.preFile.objs)
    /\ Len(last.pre) > 0
    /\ last.err = "decode"

\* C12: after a successful Add the in-memory sequence is the previous one
\* followed by the item: earlier items keep position and fields, and GetAll
\* has one more element.
AddAppends ==
    (last.op = "Add" /\ last.err = "nil") =>
        /\ GetAllResult(items) = Append(last.pre, last.item)
        /\ Len(GetAllResult(items)) = Len(last.pre) + 1
        /\ \A i \in 1..Len(last.pre) : GetAllResult(items)[i] = last.pre[i]

AddAppendsSeen ==
    /\ last.op = "Add" /\ last.err = "nil"
    /\ Len(last.pre) >= 1
    /\ last.pre[1] # last.item
    /\ items.len = Len(last.pre) + 1

\* C13: Update(item) on an existing ID replaces the stored item at its
\* position by item in all fields, leaves the other items, the order and
\* the length alone, and GetByID(item.ID) then returns the new value.
UpdateReplaces ==
    (last.op = "Update" /\ Stored(last.pre, last.id)) =>
        LET i == FirstPos(last.pre, last.id) IN
        /\ Len(GetAllResult(items)) = Len(last.pre)
        /\ \A j \in 1..Len(last.pre) :
              GetAllResult(items)[j] = IF j = i THEN last.item ELSE last.pre[j]
        /\ GetByIDResult(items, last.id) = [err |-> "nil", item |-> last.item]

UpdateReplacesSeen ==
    /\ last.op = "Update" /\ last.err = "nil"
    /\ Stored(last.pre, last.id)
    /\ Len(last.pre) = 2
    /\ last.pre[FirstPos(last.pre, last.id)] # last.item
    /\ last.pre[FirstPos(last.pre, last.id)].Project # last.item.Project

\* C14: Archive(id) on an existing ID sets Archived on the matching item and
\* changes nothing else: same position, same other fields, other items
\* untouched.
ArchiveOnlyFlag ==
    (last.op = "Archive" /\ Stored(last.pre, last.id)) =>
        LET i == FirstPos(last.pre, last.id) IN
        /\ Len(GetAllResult(items)) = Len(last.pre)
        /\ \A j \in 1..Len(last.pre) :
              GetAllResult(items)[j] =
                  IF j = i THEN [last.pre[j] EXCEPT !.Archived = TRUE] ELSE last.pre[j]

ArchiveOnlyFlagSeen ==
    /\ last.op = "Archive" /\ last.err = "nil"
    /\ Len(last.pre) = 2
    /\ last.pre[1].ID = last.id /\ last.pre[2].ID = last.id
    /\ ~last.pre[1].Archived /\ ~last.pre[2].Archived
    /\ items.backing[1].Archived

SetItemsPersists ==
    last.op = "SetItems" =>
        /\ GetAllResult(items) = last.slice
        /\ file = ArrayFile(MarshalIndent(last.slice))

\* C19: GetByID(id) returns an item with exactly that ID when one is stored
\* and ErrItemNotFound when none is; a proper prefix of a stored ID is not
\* a match.
GetByIDExact ==
    last.op = "GetByID" =>
        /\ last.err \in {"nil", "ErrItemNotFound"}
        /\ last.err = "nil" <=> Stored(last.pre, last.id)
        /\ last.err = "nil" =>
              /\ last.out[1].ID = last.id
              /\ last.out = <<last.pre[FirstPos(last.pre, last.id)]>>

GetByIDProperPrefixSeen ==
    /\ last.op = "GetByID" /\ last.err = "ErrItemNotFound"
    /\ ~Stored(last.pre, last.id)
    /\ MatchingPositions(last.pre, last.id) # {}

\* The stored items have pairwise distinct IDs.
DistinctIDs(elems) == \A i, j \in 1..Len(elems) : elems[i].ID = elems[j].ID => i = j

\* Some stored ID extends id.
Extended(elems, id) == \E j \in 1..Len(elems) : elems[j].ID # id /\ HasPrefix(elems[j].ID, id)

\* C20 as stated: in a store with pairwise distinct IDs, GetByPrefix with the
\* full ID of a stored item returns exactly that item.
FullIDAsStated ==
    (last.op = "GetByPrefix" /\ DistinctIDs(last.pre) /\ Stored(last.pre, last.id)) =>
        /\ last.err = "nil"
        /\ last.out = <<last.pre[FirstPos(last.pre, last.id)]>>

\* C20: in a store with pairwise distinct IDs, GetByPrefix with the full ID
\* of a stored item returns exactly that item when no other stored ID
\* extends it, also when other IDs share a shorter prefix with it, and
\* ErrAmbiguousID when another stored ID extends it.
FullIDUnlessExtended ==
    (last.op = "GetByPrefix" /\ DistinctIDs(last.pre) /\ Stored(last.pre, last.id)) =>
        IF Extended(last.pre, last.id)
        THEN last.err = "ErrAmbiguousID"
        ELSE /\ last.err = "nil"
             /\ last.out = <<last.pre[FirstPos(last.pre, last.id)]>>

FullIDSharedPrefixSeen ==
    /\ last.op = "GetByPrefix" /\ last.err = "nil"
    /\ DistinctIDs(last.pre) /\ Len(last.pre) = 2
    /\ Stored(last.pre, last.id)
    /\ \A j \in 1..2 : last.pre[j].ID[1] = last.id[1]
    /\ last.out[1].ID = last.id

\* C15: Archive changes no item's CompletedAt, and the done command's
\* read-then-Update changes no item's Archived flag: the item it marks
\* differs from the one it read in CompletedAt only, in memory and in the
\* file it writes.
ArchiveCompletionOrthogonal ==
    /\ last.op = "Archive" =>
          /\ Len(GetAllResult(items)) = Len(last.pre)
          /\ \A j \in 1..Len(last.pre) :
                GetAllResult(items)[j].CompletedAt = last.pre[j].CompletedAt
    /\ (last.op = "DoneCommand" /\ last.out # <<>>) =>
          LET i == FirstPos(last.slice, last.out[1].ID) IN
          /\ Len(GetAllResult(fresh)) = Len(last.slice)
          /\ \A j \in 1..Len(last.slice) :
                /\ GetAllResult(fresh)[j].Archived = last.slice[j].Archived
                /\ j # i => GetAllResult(fresh)[j] = last.slice[j]
          /\ GetAllResult(fresh)[i] =
                [last.slice[i] EXCEPT !.CompletedAt = last.item.CompletedAt]
          /\ last.item.CompletedAt # <<>>
          /\ last.err \in {"nil", "panic"} =>
                file = ArrayFile(MarshalIndent(GetAllResult(fresh)))

\* An archived, uncompleted item is marked completed and stays archived,
\* next to an item that is neither.
ArchivedThenDoneSeen ==
    /\ last.op = "DoneCommand" /\ last.err = "nil" /\ last.out # <<>>
    /\ last.out[1].Archived /\ last.out[1].CompletedAt = <<>>
    /\ Len(last.slice) = 2
    /\ \E i, j \in 1..2 :
          /\ i # j
          /\ fresh.backing[i].ID = last.out[1].ID
          /\ fresh.backing[i].Archived /\ fresh.backing[i].CompletedAt # <<>>
          /\ ~fresh.backing[j].Archived /\ fresh.backing[j].CompletedAt = <<>>

\* C18: a write of the caller to the slice GetAll returned, or to an item in
\* it (an element of its Tags included), changes nothing GetAll, GetByID or
\* GetByPrefix return afterwards, and a later mutation of the store changes
\* nothing in the slice the caller holds.
GetAllIsDefensive ==
    /\ [](last.op \in {"CallerSetTag", "CallerSetContent"} =>
            /\ GetAllResult(items) = last.pre
            /\ \A id \in AliasIDs :
                  /\ GetByIDResult(items, id) = GetByIDResult(last.preSlice, id)
                  /\ GetByPrefixResult(items, id) = GetByPrefixResult(last.preSlice, id))
    /\ [][last'.op \in {"Add", "Archive", "Save"} => held' = held]_vars

\* Process q has added an item that process p never loaded.
Unseen(p, q) == \A i \in 1..Mem(p).len : Mem(p).backing[i].ID # thr[q].item.ID

\* C21: two processes Load the same file and then each adds an item: after
\* both writes the file is the later writer's sequence, without the earlier
\* writer's item; and the file is at every point the complete serialization
\* of the sequence of one of the two.
LostUpdate ==
    /\ file.kind # "absent" =>
          \E p \in Procs : file = ArrayFile(MarshalIndent(Elems(Mem(p))))
    /\ (/\ last.op = "ProcWrite"
        /\ \A p \in Procs : thr[p].op = "Add" /\ thr[p].pc = "idle"
        /\ Unseen(1, 2) /\ Unseen(2, 1)) =>
          LET p == last.out[1]
              q == 3 - p IN
          /\ file = ArrayFile(MarshalIndent(Elems(Mem(p))))
          /\ \A i \in 1..Len(file.objs) : file.objs[i].id # thr[q].item.ID

\* C22: every call a goroutine makes returns, and a goroutine that has
\* returned holds the lock in no form, so the lock is free whenever no call
\* is in progress.
NoCallBlocks ==
    /\ [](\A t \in Threads :
            thr[t].pc = "idle" => mu.w # t /\ t \notin mu.readers)
    /\ []((\A t \in Threads : thr[t].pc = "idle") => mu = FreeMutex)
    /\ \A t \in Threads : (thr[t].pc # "idle") ~> (thr[t].pc = "idle")

FailedCallReturned ==
    /\ \A t \in Threads : thr[t].pc = "idle"
    /\ \E t \in Threads : thr[t].calls >= 1 /\ thr[t].op \in MutatingOps /\ thr[t].err # "nil"
    /\ mu = FreeMutex

\* Calls that do not reach persistLocked: construction, the reads, Load, and
\* Update, Archive and Delete of an ID that is not stored.
NeverPersists ==
    \/ last.op \in {"NewStorage", "Load", "GetAll", "GetByID", "GetByPrefix"}
    \/ last.op \in {"Update", "Archive", "Delete"} /\ ~Stored(last.pre, last.id)

\* Calls that reach persistLocked.
ReachesPersist ==
    \/ last.op \in {"Save", "Add", "SetItems"}
    \/ last.op \in {"Update", "Archive", "Delete"} /\ Stored(last.pre, last.id)

\* C23: construction, reads and Loads leave the directory and the file as
\* they were (absent after NewStorage on a new path); the first persisting
\* call that the file system lets through creates both.
ConstructionIsLazy ==
    /\ last.op = "NewStorage" => file = AbsentFile /\ ~dirExists
    /\ NeverPersists => file = last.preFile /\ dirExists = last.preDir
    /\ file.kind # "absent" => dirExists
    /\ (ReachesPersist /\ last.fs = "ok") => dirExists /\ file.kind = "array"

LoadOnNewPathSeen ==
    /\ last.op = "Load" /\ last.err = "nil"
    /\ last.preFile = AbsentFile /\ ~last.preDir
    /\ file = AbsentFile /\ ~dirExists

\* C24: through Update, Archive, Delete, Save and Load every stored item
\* keeps the ID and the CreatedAt it was added with: each item of the
\* sequence has the ID and CreatedAt of an item that was there before the
\* call.
StampsImmutable ==
    last.op \in {"Update", "Archive", "Delete", "Save", "Load"} =>
        \A j \in 1..Len(GetAllResult(items)) :
            \E k \in 1..Len(last.pre) :
                /\ last.pre[k].ID = GetAllResult(items)[j].ID
                /\ last.pre[k].CreatedAt = GetAllResult(items)[j].CreatedAt

\* Commands that look an item up by the ID argument.
LookupCommands == {"DoneCommand", "RemoveCommand", "EditCommand"}

\* C25: whenever the argument of done, remove or edit is a prefix of two or
\* more stored IDs and equals none of them, the command reports an error and
\* leaves the store and the file unchanged.
AmbiguitySurfaced ==
    (/\ last.op \in LookupCommands
     /\ Cardinality(MatchingPositions(last.slice, last.id)) >= 2
     /\ ~Stored(last.slice, last.id))
    => /\ last.err # "nil"
       /\ file = last.preFile
       /\ Elems(fresh) = last.slice

\* C26: a confirmed remove without --force leaves the item in the store with
\* Archived set, and remove --force takes the item out of the store.
RemoveArchivesByDefault ==
    (/\ last.op = "RemoveCommand"
     /\ last.err = "nil"
     /\ last.out # <<>>
     /\ last.cmd.force \/ last.cmd.answer = "y")
    => LET k == FirstPos(last.slice, last.out[1].ID) IN
       IF last.cmd.force THEN Elems(fresh) = Without(last.slice, k)
       ELSE Elems(fresh) = [last.slice EXCEPT ![k].Archived = TRUE]

Commands == {"AddCommand", "DoneCommand", "RemoveCommand", "EditCommand"}
MutatingCalls == {"Add", "Update", "Archive", "Delete", "SetItems", "Save"}

\* C27: every command constructs its store and calls Load first, makes a
\* mutating call only after Load succeeded, and when Load fails returns an
\* error with the file and the directory as they were.
CommandProtocol ==
    last.op \in Commands =>
        /\ last.cmd.calls # <<>> =>
              /\ Len(last.cmd.calls) >= 2
              /\ SubSeq(last.cmd.calls, 1, 2) = <<"NewStorage", "Load">>
        /\ \A i \in 1..Len(last.cmd.calls) :
              last.cmd.calls[i] \in MutatingCalls => i > 2 /\ last.cmd.loadErr = "nil"
        /\ file # last.preFile \/ dirExists # last.preDir => last.cmd.loadErr = "nil"
        /\ last.cmd.loadErr # "nil" =>
              /\ last.err # "nil"
              /\ last.cmd.calls = <<"NewStorage", "Load">>

\* C27 witness: a command found a file it could not load and left it alone.
FailedLoadSeen ==
    /\ last.op \in Commands
    /\ last.cmd.loadErr # "nil"
    /\ last.preFile.kind # "absent"
    /\ last.err # "nil"
    /\ file = last.preFile

\* C29: done completes the item whose ID equals the argument, else the only
\* item whose ID starts with it; exactly that item gets CompletedAt, the rest
\* of the store is as loaded and the file holds it; when no ID starts with
\* the argument the command fails and changes nothing.
DoneExactFirst ==
    (last.op = "DoneCommand" /\ last.cmd.loadErr = "nil") =>
        LET e == last.slice
            m == MatchingPositions(e, last.id)
            target == IF Stored(e, last.id) THEN FirstPos(e, last.id)
                      ELSE CHOOSE i \in m : TRUE
        IN  /\ (Stored(e, last.id) \/ Cardinality(m) = 1) =>
                /\ Elems(fresh)[target].CompletedAt # <<>>
                /\ Elems(fresh) =
                      [e EXCEPT ![target].CompletedAt = Elems(fresh)[target].CompletedAt]
                /\ last.fs = "ok" =>
                      /\ file = ArrayFile(MarshalIndent(Elems(fresh)))
                      /\ last.err \in {"nil", "panic"}
                /\ last.fs # "ok" => last.err # "nil"
            /\ m = {} =>
                /\ last.err = "ErrItemNotFound"
                /\ file = last.preFile
                /\ Elems(fresh) = e

\* C29 witness: the argument is one stored ID and a proper prefix of another,
\* and done succeeded.
DoneExactAmongPrefixesSeen ==
    /\ last.op = "DoneCommand"
    /\ last.err = "nil"
    /\ Stored(last.slice, last.id)
    /\ \E i \in MatchingPositions(last.slice, last.id) : last.slice[i].ID # last.id

\* C30: NewStorage directly followed by Add(x) works on the empty sequence:
\* the new store holds x alone and, the write going through, the file is the
\* document [x] whatever it held before.
UnloadedAddOverwrites ==
    last.op = "AddUnloaded" =>
        /\ Elems(fresh) = <<last.item>>
        /\ last.fs = "ok" =>
              /\ last.err = "nil"
              /\ file = ArrayFile(MarshalIndent(<<last.item>>))

\* C30 witness: the file held an item with another ID, and holds x alone
\* after the Add of the store that never loaded.
PersistedItemsDropped ==
    /\ last.op = "AddUnloaded"
    /\ last.fs = "ok"
    /\ last.preFile.kind = "array"
    /\ \E i \in 1..Len(last.preFile.objs) : last.preFile.objs[i] # MarshalItem(last.item)
    /\ Len(last.preFile.objs) >= 1
    /\ file = ArrayFile(MarshalIndent(<<last.item>>))

\* C28: FindStoragePath returns a non-empty explicit path joined with
\* .contextkeeper; else the value of CK_STORAGE_PATH when set; else the
\* .contextkeeper of the current directory; else one of a parent directory
\* (when the search finds one); else the global default of the system.
ResolutionPriority ==
    last.op = "FindStoragePath" =>
        LET above == {a \in last.ctxDirs : a # last.cwd} IN
        CASE last.explicitPath # <<>> -> last.out = Append(last.explicitPath, ContextDirName)
          [] last.env # <<>> -> last.out = last.env
          [] last.cwd \in last.ctxDirs ->
                last.out \in {<<ContextDirName>>, Append(last.cwd, ContextDirName)}
          [] above # {} -> \/ \E a \in above : last.out = Append(a, ContextDirName)
                           \/ last.out = GetGlobalDefault(last.goos)
          [] OTHER -> last.out = GetGlobalDefault(last.goos)

\* C31: a done, remove or edit command whose non-empty argument matches a
\* stored item never ends in a runtime panic; in particular a command that
\* persisted its mutation returns normally.
NoSliceOutOfRange ==
    (/\ last.op \in LookupCommands
     /\ Len(last.id) >= 1
     /\ last.out # <<>>)
    => last.err # "panic"

\* The store held two or more items with the ID the last call named.
Duplicated == Cardinality({i \in 1..Len(last.pre) : last.pre[i].ID = last.id}) >= 2

\* C32: Add appends an item whose ID is already stored; with two items
\* sharing an ID, GetByID returns the first, Update, Archive and Delete
\* change only the first, and GetByPrefix of the ID is ambiguous.
DuplicateFirstWins ==
    LET k == FirstPos(last.pre, last.id) IN
    /\ (last.op = "Add" /\ Stored(last.pre, last.id)) =>
          Elems(items) = Append(last.pre, last.item)
    /\ (last.op = "GetByID" /\ Duplicated) =>
          last.err = "nil" /\ last.out = <<last.pre[k]>>
    /\ (last.op = "Update" /\ Duplicated) =>
          Elems(items) = [last.pre EXCEPT ![k] = last.item]
    /\ (last.op = "Archive" /\ Duplicated) =>
          Elems(items) = [last.pre EXCEPT ![k].Archived = TRUE]
    /\ (last.op = "Delete" /\ Duplicated) =>
          Elems(items) = Without(last.pre, k)
    /\ (last.op = "GetByPrefix" /\ Duplicated) =>
          last.err = "ErrAmbiguousID"

\* C32 witness: of two items sharing the ID, Delete took the first and the
\* second, with its different content, is still stored.
DuplicateSurvivesDelete ==
    /\ last.op = "Delete"
    /\ Duplicated
    /\ Len(last.pre) = 2
    /\ last.pre[1] # last.pre[2]
    /\ Elems(items) = <<last.pre[2]>>

\* C33: a Load that returns an error leaves the in-memory sequence exactly
\* as it was before the call.
FailedLoadKeepsMemory ==
    (last.op = "Load" /\ last.err # "nil") => Elems(items) = last.pre

\* The IDs of a sequence of items, in order.
IDsOf(elems) == [i \in 1..Len(elems) |-> elems[i].ID]

\* C34 as stated: when no Add supplies an ID that is stored, the stored IDs
\* stay pairwise distinct through Add, Update, Archive, Delete, Save and
\* Load, and Update and Archive leave the sequence of IDs alone.
UniqueIDsAsStated ==
    /\ DistinctIDs(Elems(items))
    /\ last.op \in {"Update", "Archive"} => IDsOf(Elems(items)) = IDsOf(last.pre)

\* The stored IDs are valid UTF-8 and pairwise distinct, and so are the IDs
\* of the array in the store's file.
SoundIDs ==
    /\ DistinctIDs(Elems(items))
    /\ \A i \in 1..items.len : ValidUTF8(items.backing[i].ID)
    /\ file.kind = "array" => DistinctIDs(Decoded(file.objs))

\* C34 as amended: from a store whose IDs, in memory and in its file, are
\* valid UTF-8 and pairwise distinct, every call (an Add supplying a valid
\* UTF-8 ID that is not stored) leads to such a store again, and Update and
\* Archive leave the sequence of IDs alone.
UniqueIDsPreserved ==
    [][(SoundIDs /\ (last'.op = "Add" => ValidUTF8(last'.id)))
        => /\ SoundIDs'
           /\ last'.op \in {"Update", "Archive"} =>
                 IDsOf(Elems(items')) = IDsOf(Elems(items))]_vars

\* C34 witness: a store with two IDs loaded its own file and holds the two.
TwoIDsReloaded ==
    /\ last.op = "Load"
    /\ last.err = "nil"
    /\ last.preFile.kind = "array"
    /\ items.len = 2
    /\ SoundIDs

\* The same letter, whatever its case.
SameLetter(a, b) ==
    \/ a = b
    \/ a \in UpperCase /\ b = a + CaseOffset
    \/ b \in UpperCase /\ a = b + CaseOffset

\* q occurs in s when case is ignored.
OccursIgnoringCase(s, q) ==
    \E i \in 0..(Len(s) - Len(q)) : \A j \in 1..Len(q) : SameLetter(s[i + j], q[j])

\* The tags a --tag value names: its longest runs without comma or space.
TagsNamed(str) ==
    LET Sep(i) == str[i] \in {Comma, Space}
        Run(a, b) == /\ a <= b
                     /\ \A i \in a..b : ~Sep(i)
                     /\ a = 1 \/ Sep(a - 1)
                     /\ b = Len(str) \/ Sep(b + 1)
    IN  {SubSeq(str, p[1], p[2]) :
            p \in {q \in (1..Len(str)) \X (1..Len(str)) : Run(q[1], q[2])}}

\* The item passes the filters of the last search.
Wanted(it) ==
    /\ last.cmd.showAll \/ it.CompletedAt = <<>>
    /\ \A t \in TagsNamed(last.cmd.tagFilter) : \E j \in 1..Len(it.Tags) : it.Tags[j] = t
    /\ last.id # <<>> =>
          \/ OccursIgnoringCase(it.Content, last.id)
          \/ \E j \in 1..Len(it.Tags) : OccursIgnoringCase(it.Tags[j], last.id)

\* C35: search returns, in store order, exactly the stored items that pass
\* every active filter: not completed unless --all, holding every tag of
\* --tag, and holding the query in the content or a tag when case is
\* ignored; with no query and no flag, exactly the items not completed.
SearchFilters ==
    (last.op = "SearchCommand" /\ last.cmd.loadErr = "nil") =>
        /\ last.out = SelectSeq(last.slice, Wanted)
        /\ (last.id = <<>> /\ last.cmd.tagFilter = <<>> /\ ~last.cmd.showAll) =>
              last.out = SelectSeq(last.slice, LAMBDA it : it.CompletedAt = <<>>)

\* C35 witness: a query found an item that holds it only in another case,
\* and left another stored item out.
SearchIgnoredCaseSeen ==
    /\ last.op = "SearchCommand"
    /\ last.err = "nil"
    /\ last.id # <<>>
    /\ last.out # <<>>
    /\ Len(last.out) < Len(last.slice)
    /\ ~Contains(last.out[1].Content, last.id)
    /\ \A j \in 1..Len(last.out[1].Tags) : ~Contains(last.out[1].Tags[j], last.id)
AddRejects ==
    \/ last.cmd.content = <<>>
    \/ \E t \in TagsNamed(last.cmd.tagStr) :
          Len(t) > MaxTagLength \/ \E k \in 1..Len(t) : t[k] \notin TagChars

\* C37: add with empty content or a bad tag changes neither store nor file;
\* any other add that returns without error has appended one new item, not
\* completed and not archived, so that a fresh Load shows the items loaded
\* before, unchanged, and the new one after them.
AddValidates ==
    last.op = "AddCommand" =>
        /\ AddRejects =>
              /\ last.cmd.calls = <<>>
              /\ file = last.preFile
              /\ dirExists = last.preDir
        /\ (~AddRejects /\ last.err = "nil") =>
              LET after == LoadResult(EmptySlice, file, "ok")
                  n == Len(last.slice)
              IN  /\ after.err = "nil"
                  /\ after.items.len = n + 1
                  /\ SubSeq(Elems(after.items), 1, n) = last.slice
                  /\ Elems(after.items)[n + 1].ID = last.id
                  /\ Elems(after.items)[n + 1].CompletedAt = <<>>
                  /\ ~Elems(after.items)[n + 1].Archived
                  /\ Elems(fresh) = Append(last.slice, last.item)

\* C37 witness: an add with a bad tag left a filled store file alone.
AddRejectedSeen ==
    /\ last.op = "AddCommand"
    /\ last.cmd.content # <<>>
    /\ AddRejects
    /\ last.err # "nil"
    /\ last.preFile.kind = "array"
    /\ Len(last.preFile.objs) >= 1
    /\ file = last.preFile

\* The file held the serialization of the store when the last call began,
\* as it does after a successful Save or mutation.
WasSaved == last.preFile = ArrayFile(MarshalIndent(last.pre))

====
